---- MODULE Spec2Model ----
(***************************************************************************)
(* State-machine model of the risk gates, the order manager and the        *)
(* decision loop of the trading bot.                                        *)
(*                                                                          *)
(*   RiskCalculator   src/src/decision/risk_calculator.py                   *)
(*   OrderManager     src/src/tradovate/order_manager.py                    *)
(*   TradovateClient  src/src/tradovate/client.py                           *)
(*   TradingBot       src/src/bot/trading_bot.py                            *)
(*                                                                          *)
(* Money is counted in integer units (MaxDailyLoss units stand for the      *)
(* configured max_daily_loss); only sums and comparisons of P&L are         *)
(* modelled.  A date is a day number, 0 standing for Python's None.  The    *)
(* bot trades one symbol (BotConfig.symbols defaults to one contract).      *)
(***************************************************************************)
EXTENDS Integers, Sequences, FiniteSets, TLC

\* ------------------------------------------------------------------ bounds
MaxDay == 2
PnlCap == 2
TradesCap == 2
MaxTime == 4
MaxRequests == 2
MaxArrivals == 6
MaxSteps == 3
MaxBarEvents == 5

\* ------------------------------------------------ configuration of the run
\* max_daily_loss in money units, max_trades_per_day, max_position_size
\* (constructor parameters; the bot passes max_contracts as
\* max_position_size), cooldown_seconds
MaxDailyLoss == 2
MaxTradesPerDay == 1
MaxPositionSize == 1
CooldownSeconds == 2

\* the broker hands out order ids 1, 2, ...; a run books at most one order
\* more than the daily limit
\* lifetime of an access token and the margin of the proactive renewal, in
\* units of now (the client's clock is counted in the hours of its timedeltas)
\* capacity of the rings of the MarketDataHandler
max_ticks == 2
max_bars == 2
\* periods of the two EMAs
fast_ema_period == 2
slow_ema_period == 3
\* RiskCalculator.max_position_size of the decider
rc_max_position_size == 3
\* settings.confidence_threshold and TradingConfig.confidence_threshold, in hundredths
confidence_threshold == 55
\* ttl of the signal cache (30 seconds), in ticks
signal_ttl == 2
TokenLife == 3
RenewMargin == 1
MaxOrders == MaxTradesPerDay + 1
MaxQty == MaxPositionSize + 1

PnlValues == {-1, 1}
NoDate == 0
NoTime == -1
NoId == 0
NoPrice == 0
Prices == {1, 2}
Tasks == {"t1", "t2"}
OrderIds == 1..MaxOrders
PlaceOps == {"Market", "Bracket", "Limit", "Stop"}
Quantities == 1..MaxQty
Symbol == "MNQH5"
ContractId == "contract-id"
RawContractId == "raw contract id"
\* keys of _positions: on_position_event stores under str(contractId),
\* sync_positions under the contractId as the broker sent it; either may be
\* the symbol itself
EventKeys == {Symbol, ContractId}
SyncKeys == {Symbol, RawContractId}
Keys == EventKeys \cup SyncKeys
NetPositions == -MaxQty..MaxQty
Min(a, b) == IF a <= b THEN a ELSE b
Abs(x) == IF x < 0 THEN -x ELSE x

VARIABLES
    today,      \* date.today(), as a day number
    rc,         \* RiskCalculator: _current_date, _daily_pnl, _daily_trades, _is_killed
    rc_ret,     \* reason returned by the latest _check_trading_allowed ("none": no call since the last other step)
    om,         \* OrderManager: _current_date, _daily_pnl, _daily_trades, _is_killed
    om_ret,     \* reason returned by the latest can_trade
    rc_hist,    \* history: sum of the pnls recorded on the calendar day, breach latch
    om_hist,    \* history: the same for the OrderManager
    orders,     \* OrderManager._orders: order id -> Order (status "none": no such key)
    next_id,    \* broker: the next orderId it hands out
    task,       \* callers of the placement coroutines: where each one is suspended, its arguments
    ret,        \* what the latest placement call returned, and to whom
    accepted,   \* history: orders the broker accepted on the calendar day
    positions,  \* OrderManager._positions: key -> Position (side "none": no such key)
    fills,      \* history: signed sum of the fill quantities, P&L the day's fills realised
    on_fill,    \* OrderManager._on_fill: whether a callback is registered; history: how often it was called
    now,        \* datetime.utcnow(), in seconds
    bot,        \* TradingBot._main_loop: where it is suspended
    last_trade_time,  \* TradingBot._last_trade_time[symbol] (NoTime: no such key)
    last_sent,  \* history: when the loop last sent a placement to the broker
    ws,         \* TradovateWebSocket: _running, the two streams, their handler tasks, the heartbeat task, subscriptions
    ws_req,     \* TradovateWebSocket: _request_id, _pending_requests, the _send_request coroutines
    client,     \* TradovateClient: _session, _access_token, _token_expiry, the _request coroutine
    run,        \* TradingBot: _running, the loop tasks, where stop() is suspended; broker: the orders it cancelled
    md,         \* MarketDataHandler: _ticks, _bars, _current_bar per symbol; history: the items that arrived
    ind,        \* TechnicalIndicators: the EMAs of the symbol and their previous values, the latest IndicatorValues
    dec,        \* SignalGenerator.generate: the arguments of a call, the RiskParameters and the TradingSignal it returned
    agg,        \* SentimentAggregator.aggregate: the data of a call and the AggregatedSentiment it returned
    srv,        \* signal server: the global service, its signal and data caches, the last response to GET /signal
    cbar,       \* MarketDataHandler._current_bar and the closes of _bars, with prices and sizes
    oso         \* TechnicalIndicators._atr of the symbol; history: the latest order/placeoso payload and the price it was built for

rcVars == <<rc, rc_ret, rc_hist>>
omGate == <<om, om_ret, om_hist>>
omBook == <<orders, next_id, task, ret, accepted>>
omStream == <<positions, fills, on_fill>>
wsVars == <<ws, ws_req>>
botVars == <<now, bot, last_trade_time, last_sent, wsVars>>
clVars == <<client>>
svcVars == <<agg, srv, cbar, oso>>
libVars == <<md, ind, dec, svcVars>>
appVars == <<clVars, run, libVars>>
coreVars == <<today, rcVars, omGate, omBook, omStream, botVars>>

\* ----------------------------------------------------------- RiskCalculator
RCInit ==
    [current_date |-> NoDate, daily_pnl |-> 0, daily_trades |-> 0, is_killed |-> FALSE]

\* the date check at the head of _check_trading_allowed
RC_new_day(g, d) ==
    IF g.current_date # d
    THEN [g EXCEPT !.current_date = d, !.daily_pnl = 0, !.daily_trades = 0]
    ELSE g

\* the reason _check_trading_allowed returns ("ok" stands for (True, ""))
RC_check_trading_allowed(g, d) ==
    LET h == RC_new_day(g, d) IN
    IF h.is_killed THEN "kill"
    ELSE IF h.daily_pnl <= -MaxDailyLoss THEN "loss"
    ELSE IF h.daily_trades >= MaxTradesPerDay THEN "trades"
    ELSE "ok"

RC_record_trade(g, pnl) ==
    LET h == [g EXCEPT !.daily_trades = @ + 1, !.daily_pnl = @ + pnl] IN
    IF h.daily_pnl <= -MaxDailyLoss THEN [h EXCEPT !.is_killed = TRUE] ELSE h

RC_kill_trading(g) == [g EXCEPT !.is_killed = TRUE]

RC_resume_trading(g) == [g EXCEPT !.is_killed = FALSE]

\* ------------------------------------------------------ OrderManager's gate
OMInit ==
    [current_date |-> NoDate, daily_pnl |-> 0, daily_trades |-> 0, is_killed |-> FALSE]

OM_check_new_day(g, d) ==
    IF g.current_date # d
    THEN [current_date |-> d, daily_pnl |-> 0, daily_trades |-> 0, is_killed |-> FALSE]
    ELSE g

\* can_trade without its kill-switch branch
OM_can_trade_NoKill(g, d) ==
    LET h == OM_check_new_day(g, d) IN
    IF h.daily_trades >= MaxTradesPerDay THEN "trades"
    ELSE IF h.daily_pnl <= -MaxDailyLoss THEN "loss"
    ELSE "ok"

\* the reason can_trade returns ("ok" stands for (True, ""))
OM_can_trade(g, d) ==
    LET h == OM_check_new_day(g, d) IN
    IF h.is_killed THEN "kill"
    ELSE IF h.daily_trades >= MaxTradesPerDay THEN "trades"
    ELSE IF h.daily_pnl <= -MaxDailyLoss THEN "loss"
    ELSE "ok"

\* the state can_trade leaves: the day check, and the latch of the loss branch
OM_can_trade_state(g, d) ==
    LET h == OM_check_new_day(g, d) IN
    IF OM_can_trade(g, d) = "loss" THEN [h EXCEPT !.is_killed = TRUE] ELSE h

OM_kill_trading(g) == [g EXCEPT !.is_killed = TRUE]

\* a resume that also clears the day's counters
OM_resume_trading_Reset(g) ==
    [g EXCEPT !.is_killed = FALSE, !.daily_pnl = 0, !.daily_trades = 0]

OM_resume_trading(g) == [g EXCEPT !.is_killed = FALSE]

OM_record_pnl(g, pnl) ==
    LET h == [g EXCEPT !.daily_pnl = @ + pnl] IN
    IF h.daily_pnl <= -MaxDailyLoss THEN OM_kill_trading(h) ELSE h

\* ------------------------------------------------------------ history
HistInit == [sum |-> 0, breach |-> FALSE]

\* a pnl was recorded: the day's sum grows, and the latch sets once the
\* gate's dailyPnL and the day's sum are both at or below the limit
HistRecord(h, pnl, g) ==
    [sum |-> h.sum + pnl,
     breach |-> h.breach \/ (g.daily_pnl <= -MaxDailyLoss /\ h.sum + pnl <= -MaxDailyLoss)]

HistResume(h) == [h EXCEPT !.breach = FALSE]

InRange(x) == x >= -PnlCap /\ x <= PnlCap

\* ------------------------------------------------------------ gate actions
AdvanceDay ==
    /\ today < MaxDay
    /\ today' = today + 1
    /\ rc_hist' = HistInit
    /\ om_hist' = HistInit
    /\ rc_ret' = "none"
    /\ om_ret' = "none"
    /\ accepted' = 0
    /\ fills' = [fills EXCEPT !.pnl = 0]
    /\ UNCHANGED <<rc, om, orders, next_id, task, ret, positions, on_fill, botVars, appVars>>

RCCheckTradingAllowed ==
    /\ rc_ret' = RC_check_trading_allowed(rc, today)
    /\ rc' = RC_new_day(rc, today)
    /\ UNCHANGED <<today, rc_hist, omGate, omBook, omStream, botVars, appVars>>

RCRecordTrade ==
    \E pnl \in PnlValues :
        /\ rc.daily_trades < TradesCap
        /\ InRange(rc.daily_pnl + pnl)
        /\ InRange(rc_hist.sum + pnl)
        /\ rc' = RC_record_trade(rc, pnl)
        /\ rc_hist' = HistRecord(rc_hist, pnl, rc')
        /\ rc_ret' = "none"
        /\ UNCHANGED <<today, omGate, omBook, omStream, botVars, appVars>>

RCKillTrading ==
    /\ rc' = RC_kill_trading(rc)
    /\ rc_ret' = "none"
    /\ UNCHANGED <<today, rc_hist, omGate, omBook, omStream, botVars, appVars>>

RCResumeTrading ==
    /\ rc' = RC_resume_trading(rc)
    /\ rc_hist' = HistResume(rc_hist)
    /\ rc_ret' = "none"
    /\ UNCHANGED <<today, omGate, omBook, omStream, botVars, appVars>>

OMCanTrade ==
    /\ om_ret' = OM_can_trade(om, today)
    /\ om' = OM_can_trade_state(om, today)
    /\ UNCHANGED <<today, rcVars, om_hist, omBook, omStream, botVars, appVars>>

OMRecordPnl ==
    \E pnl \in PnlValues :
        /\ InRange(om.daily_pnl + pnl)
        /\ InRange(om_hist.sum + pnl)
        /\ om' = OM_record_pnl(om, pnl)
        /\ om_hist' = HistRecord(om_hist, pnl, om')
        /\ om_ret' = "none"
        /\ UNCHANGED <<today, rcVars, omBook, omStream, botVars, appVars>>

OMKillTrading ==
    /\ om' = OM_kill_trading(om)
    /\ om_ret' = "none"
    /\ UNCHANGED <<today, rcVars, om_hist, omBook, omStream, botVars, appVars>>

OMResumeTrading ==
    /\ om' = OM_resume_trading(om)
    /\ om_hist' = HistResume(om_hist)
    /\ om_ret' = "none"
    /\ UNCHANGED <<today, rcVars, omBook, omStream, botVars, appVars>>

GateInit ==
    /\ today = 1
    /\ rc = RCInit
    /\ rc_ret = "none"
    /\ om = OMInit
    /\ om_ret = "none"
    /\ rc_hist = HistInit
    /\ om_hist = HistInit

\* ------------------------------------------------ OrderManager: placements
NoOrder ==
    [action |-> "none", quantity |-> 0, order_type |-> "none", status |-> "none",
     fill_price |-> NoPrice, filled_qty |-> 0]

NoRet == [task |-> "none", value |-> "none"]

Idle ==
    [pc |-> "idle", op |-> "none", action |-> "none", requested |-> 0, quantity |-> 0,
     order_id |-> NoId]

BookInit ==
    /\ orders = [i \in OrderIds |-> NoOrder]
    /\ next_id = 1
    /\ task = [t \in Tasks |-> Idle]
    /\ ret = NoRet
    /\ accepted = 0

\* the quantity a placement passes to the client: place_market_order,
\* place_bracket_order and place_limit_order take min(quantity,
\* max_position_size); place_stop_order passes quantity on as it is
PlaceQuantity(op, quantity) ==
    IF op = "Stop" THEN quantity ELSE Min(quantity, MaxPositionSize)

\* the Order a placement records when the broker's answer carries an orderId
NewOrder(op, action, quantity) ==
    [action |-> action, quantity |-> quantity, order_type |-> op,
     status |-> "working", fill_price |-> NoPrice, filled_qty |-> 0]

\* _daily_trades after an accepted placement: place_market_order and
\* place_bracket_order count the trade, place_limit_order and
\* place_stop_order do not
CountTrade(g, op) ==
    IF op \in {"Market", "Bracket"} THEN [g EXCEPT !.daily_trades = @ + 1] ELSE g

InFlight == Cardinality({t \in Tasks : task[t].pc = "await"})

\* a placement coroutine, from its call to its first suspension: can_trade,
\* the quantity clamp, then client.place_oso_order posts the bracket, while
\* client.place_order first awaits get_contract
PlaceCall(t, op, action, quantity) ==
    /\ task[t].pc = "idle"
    /\ next_id + InFlight <= MaxOrders
    /\ om_ret' = OM_can_trade(om, today)
    /\ om' = OM_can_trade_state(om, today)
    /\ IF OM_can_trade(om, today) # "ok"
       THEN /\ ret' = [task |-> t, value |-> "refused"]
            /\ task' = task
       ELSE /\ ret' = NoRet
            /\ task' = [task EXCEPT ![t] =
                    [pc |-> IF op = "Bracket" THEN "await" ELSE "contract",
                     op |-> op, action |-> action, requested |-> quantity,
                     quantity |-> PlaceQuantity(op, quantity), order_id |-> NoId]]
    /\ UNCHANGED <<today, rcVars, om_hist, orders, next_id, accepted, omStream, botVars, appVars>>

\* client.place_order and client.liquidate_position resume from
\* get_contract: without a contract they return None (the placement returns
\* None, flatten_position False), with one they post the request
ContractReturn(t, found) ==
    /\ task[t].pc = "contract"
    /\ IF found
       THEN /\ task' = [task EXCEPT ![t].pc = "await"]
            /\ ret' = ret
       ELSE /\ task' = [task EXCEPT ![t] = Idle]
            /\ ret' = [task |-> t,
                       value |-> IF task[t].op = "Flatten" THEN "false" ELSE "rejected"]
    /\ om_ret' = "none"
    /\ UNCHANGED <<today, rcVars, om, om_hist, orders, next_id, accepted, omStream, botVars, appVars>>

\* the broker's answer resumes the coroutine: with an orderId the Order is
\* recorded, without one the call returns None
PlaceReturn(t, ok) ==
    /\ task[t].pc = "await"
    /\ task[t].op \in PlaceOps
    /\ IF ok
       THEN /\ orders' = [orders EXCEPT ![next_id] =
                    NewOrder(task[t].op, task[t].action, task[t].quantity)]
            /\ next_id' = next_id + 1
            /\ om' = CountTrade(om, task[t].op)
            /\ accepted' = accepted + 1
            /\ ret' = [task |-> t, value |-> "order"]
       ELSE /\ ret' = [task |-> t, value |-> "rejected"]
            /\ UNCHANGED <<orders, next_id, om, accepted>>
    /\ task' = [task EXCEPT ![t] = Idle]
    /\ om_ret' = "none"
    /\ UNCHANGED <<today, rcVars, om_hist, omStream, botVars, appVars>>

\* one caller that awaits each placement before the next one
PlaceSeq == \E op \in PlaceOps, q \in Quantities : PlaceCall("t1", op, "Buy", q)

\* callers that run concurrently
PlaceAny == \E t \in Tasks, op \in PlaceOps, q \in Quantities : PlaceCall(t, op, "Buy", q)

ContractAnswer == \E t \in Tasks, found \in BOOLEAN : ContractReturn(t, found)

PlaceAnswer == \E t \in Tasks, ok \in BOOLEAN : PlaceReturn(t, ok)

\* caller of the stream specification: both sides
PlaceSide ==
    \E op \in PlaceOps, a \in {"Buy", "Sell"}, q \in Quantities : PlaceCall("t1", op, a, q)

\* ------------------------------------- OrderManager: positions and events
StreamInit ==
    /\ positions = [k \in Keys |-> [side |-> "none", quantity |-> 0]]
    /\ fills = [net |-> 0, pnl |-> 0]
    /\ on_fill = [set |-> FALSE, calls |-> 0]

Signed(action, qty) == IF action = "Buy" THEN qty ELSE -qty

\* an execution on this side reduces the net position (only such a fill
\* realises P&L)
Closes(net, action) == (net > 0 /\ action = "Sell") \/ (net < 0 /\ action = "Buy")

\* a mapping that stores netPos as the quantity, sign included
PositionOf_Signed(net_pos) ==
    [side |-> IF net_pos > 0 THEN "long" ELSE IF net_pos < 0 THEN "short" ELSE "flat",
     quantity |-> net_pos]

\* netPos -> (side, quantity) of on_position_event and sync_positions
PositionOf(net_pos) ==
    [side |-> IF net_pos > 0 THEN "long" ELSE IF net_pos < 0 THEN "short" ELSE "flat",
     quantity |-> Abs(net_pos)]

\* on_position_event stores the Position under str(contractId)
OM_on_position_event(pos, key, net_pos) == [pos EXCEPT ![key] = PositionOf(net_pos)]

\* on_fill_event: a tracked order gets filled_qty += qty and turns FILLED at
\* filled_qty >= quantity; an orderId that is missing or not tracked is
\* ignored.  Nothing else of the OrderManager is written.
OM_on_fill_event(ords, id, price, qty) ==
    IF id \in OrderIds /\ ords[id].status # "none"
    THEN [ords EXCEPT ![id].fill_price = price,
                      ![id].filled_qty = @ + qty,
                      ![id].status = IF ords[id].filled_qty + qty >= ords[id].quantity
                                     THEN "filled" ELSE @]
    ELSE ords

\* a flatten_position that leaves the tracked position as it was
FlattenLocal_Keep(pos, symbol) == pos

\* what flatten_position writes once the broker has answered
FlattenLocal(pos, symbol) ==
    IF pos[symbol].side # "none"
    THEN [pos EXCEPT ![symbol] = [side |-> "flat", quantity |-> 0]]
    ELSE pos

get_position(symbol) == positions[symbol]

\* the position as a signed quantity (None and FLAT: 0)
SignedPosition(p) ==
    IF p.side = "long" THEN p.quantity ELSE IF p.side = "short" THEN -p.quantity ELSE 0

\* on_fill_event calls the registered callback for every fill of a tracked
\* order
OM_on_fill_calls(cb, ords, id) ==
    IF id \in OrderIds /\ ords[id].status # "none" /\ cb.set
    THEN [cb EXCEPT !.calls = @ + 1]
    ELSE cb

\* what cancel_order writes once the broker has answered
OM_cancel_local(ords, id) ==
    IF ords[id].status # "none" THEN [ords EXCEPT ![id].status = "cancelled"] ELSE ords

\* the broker executes part of an order and the fill event reaches
\* on_fill_event.  The broker never fills more than the order's quantity;
\* the event may arrive after cancel_order has marked the order CANCELLED
OrderFill(id, q, price, pnl) ==
    /\ orders[id].status \in {"working", "cancelled"}
    /\ q <= orders[id].quantity - orders[id].filled_qty
    /\ pnl # 0 => Closes(fills.net, orders[id].action)
    /\ InRange(fills.pnl + pnl)
    /\ orders' = OM_on_fill_event(orders, id, price, q)
    /\ on_fill' = OM_on_fill_calls(on_fill, orders, id)
    /\ fills' = [net |-> fills.net + Signed(orders[id].action, q),
                 pnl |-> fills.pnl + pnl]
    /\ UNCHANGED <<today, rcVars, omGate, next_id, task, ret, accepted, positions, botVars, appVars>>

FillEvent ==
    \E id \in OrderIds, q \in Quantities, price \in Prices, pnl \in {0} \cup PnlValues :
        OrderFill(id, q, price, pnl)

\* a child of a bracket (its stop or its target) executes against the open
\* position: the fill event carries the child's orderId, which _orders does
\* not hold
ChildFill(q, price, pnl) ==
    /\ \E i \in OrderIds : orders[i].order_type = "Bracket" /\ orders[i].filled_qty > 0
    /\ fills.net # 0
    /\ q <= Abs(fills.net)
    /\ InRange(fills.pnl + pnl)
    /\ orders' = OM_on_fill_event(orders, NoId, price, q)
    /\ on_fill' = OM_on_fill_calls(on_fill, orders, NoId)
    /\ fills' = [net |-> IF fills.net > 0 THEN fills.net - q ELSE fills.net + q,
                 pnl |-> fills.pnl + pnl]
    /\ UNCHANGED <<today, rcVars, omGate, next_id, task, ret, accepted, positions, botVars, appVars>>

ChildFillEvent ==
    \E q \in Quantities, price \in Prices, pnl \in PnlValues : ChildFill(q, price, pnl)

\* OrderManager.set_callbacks
OMSetCallbacks ==
    \E b \in BOOLEAN :
        /\ on_fill' = [on_fill EXCEPT !.set = b]
        /\ UNCHANGED <<today, rcVars, omGate, omBook, positions, fills, botVars, appVars>>

\* cancel_order, up to its suspension in client.cancel_order
CancelCall(t, id) ==
    /\ task[t].pc = "idle"
    /\ task' = [task EXCEPT ![t] = [Idle EXCEPT !.pc = "await", !.op = "Cancel", !.order_id = id]]
    /\ ret' = NoRet
    /\ UNCHANGED <<today, rcVars, omGate, orders, next_id, accepted, omStream, botVars, appVars>>

\* the broker's answer to order/cancelorder resumes cancel_order
CancelReturn(t, ok) ==
    /\ task[t].pc = "await"
    /\ task[t].op = "Cancel"
    /\ IF ok
       THEN /\ orders' = OM_cancel_local(orders, task[t].order_id)
            /\ ret' = [task |-> t, value |-> "true"]
       ELSE /\ ret' = [task |-> t, value |-> "false"]
            /\ UNCHANGED orders
    /\ task' = [task EXCEPT ![t] = Idle]
    /\ UNCHANGED <<today, rcVars, omGate, next_id, accepted, omStream, botVars, appVars>>

Cancel == \E id \in OrderIds : CancelCall("t1", id)

CancelAnswer == \E ok \in BOOLEAN : CancelReturn("t1", ok)

\* the broker reports its net position and the event reaches
\* on_position_event
PositionEvent ==
    \E k \in EventKeys :
        /\ positions' = OM_on_position_event(positions, k, fills.net)
        /\ UNCHANGED <<today, rcVars, omGate, omBook, fills, on_fill, botVars, appVars>>

\* a position event with whatever netPos the broker reports
PositionReport ==
    \E k \in EventKeys, n \in NetPositions :
        /\ positions' = OM_on_position_event(positions, k, n)
        /\ UNCHANGED <<today, rcVars, omGate, omBook, fills, on_fill, botVars, appVars>>

\* sync_positions, up to its suspension in client.get_positions
SyncCall(t) ==
    /\ task[t].pc = "idle"
    /\ task' = [task EXCEPT ![t] = [Idle EXCEPT !.pc = "await", !.op = "Sync"]]
    /\ ret' = NoRet
    /\ UNCHANGED <<today, rcVars, omGate, orders, next_id, accepted, omStream, botVars, appVars>>

\* _positions after sync_positions has stored the list the broker sent
OM_sync_positions(pos, net) ==
    [k \in Keys |-> IF k \in DOMAIN net THEN PositionOf(net[k]) ELSE pos[k]]

\* the broker's list resumes sync_positions
SyncReturn(t) ==
    /\ task[t].pc = "await"
    /\ task[t].op = "Sync"
    /\ \E S \in SUBSET SyncKeys : \E net \in [S -> NetPositions] :
            positions' = OM_sync_positions(positions, net)
    /\ task' = [task EXCEPT ![t] = Idle]
    /\ ret' = [task |-> t, value |-> "none"]
    /\ UNCHANGED <<today, rcVars, omGate, orders, next_id, accepted, fills, on_fill, botVars, appVars>>

Sync == SyncCall("t1")

SyncAnswer == SyncReturn("t1")

\* flatten_position, up to its suspension in client.liquidate_position
FlattenCall(t) ==
    /\ task[t].pc = "idle"
    /\ task' = [task EXCEPT ![t] = [Idle EXCEPT !.pc = "contract", !.op = "Flatten"]]
    /\ ret' = NoRet
    /\ UNCHANGED <<today, rcVars, omGate, orders, next_id, accepted, omStream, botVars, appVars>>

\* the broker's answer to order/liquidateposition resumes flatten_position;
\* a liquidation the broker accepted closes its net position
FlattenReturn(t, ok) ==
    /\ task[t].pc = "await"
    /\ task[t].op = "Flatten"
    /\ IF ok
       THEN /\ positions' = FlattenLocal(positions, Symbol)
            /\ fills' = [fills EXCEPT !.net = 0]
            /\ ret' = [task |-> t, value |-> "true"]
       ELSE /\ ret' = [task |-> t, value |-> "false"]
            /\ UNCHANGED <<positions, fills>>
    /\ task' = [task EXCEPT ![t] = Idle]
    /\ UNCHANGED <<today, rcVars, omGate, orders, next_id, accepted, on_fill, botVars, appVars>>

Flatten == FlattenCall("t1")

FlattenAnswer == \E ok \in BOOLEAN : FlattenReturn("t1", ok)

\* ------------------------------------------- TradovateWebSocket: requests
Streams == {"market", "trading"}
ReqIds == 1..MaxRequests
FrameIds == 0..MaxRequests

WsNoCall == [pc |-> "none", stream |-> "none"]

\* the other components of the model leave the websocket client alone
otherVars == <<today, rcVars, omGate, omBook, omStream, now, bot, last_trade_time, last_sent, appVars>>

WsInit ==
    /\ ws = [running |-> FALSE, market |-> "none", trading |-> "none",
             market_task |-> "none", trading_task |-> "none",
             hb |-> "none", beat |-> "none", subs |-> {}, user_sync |-> FALSE]
    /\ ws_req = [request_id |-> 0,
                 pending |-> [k \in ReqIds |-> "none"],
                 call |-> [k \in ReqIds |-> WsNoCall],
                 completed |-> [k \in ReqIds |-> 0]]

WS_next_request_id(r) == r.request_id + 1

\* an eviction that leaves the entry in the table
WS_pop_Keep(pending, id) == pending

\* self._pending_requests.pop(req_id, None)
WS_pop(pending, id) == [pending EXCEPT ![id] = "none"]

\* _send_request up to its first suspension: a new id, a future in the
\* table, then await ws.send(message)
WS_send_request(r, stream) ==
    LET id == WS_next_request_id(r) IN
    [r EXCEPT !.request_id = id,
              !.pending[id] = "waiting",
              !.call[id] = [pc |-> "send", stream |-> stream]]

\* _process_message on a frame with id k: a pending future gets the result;
\* set_result on a future that is already done raises, which the handler
\* catches; any other frame goes on to the event handlers
WS_process_message(r, k) ==
    IF k \in ReqIds /\ r.pending[k] = "waiting"
    THEN [r EXCEPT !.pending[k] = "done", !.completed[k] = @ + 1]
    ELSE r

\* subscribe_quote / subscribe_chart: remember the subscription, send the
\* request on the market stream
WsSubscribe ==
    \E kind \in {"quote", "chart"} :
        /\ ws.market # "none"
        /\ ws_req.request_id < MaxRequests
        /\ ws' = [ws EXCEPT !.subs = @ \cup {kind}]
        /\ ws_req' = WS_send_request(ws_req, "market")
        /\ UNCHANGED otherVars

\* subscribe_user_updates: user/syncrequest on the trading stream
WsSubscribeUser ==
    /\ ws.trading # "none"
    /\ ws_req.request_id < MaxRequests
    /\ ws' = [ws EXCEPT !.user_sync = TRUE]
    /\ ws_req' = WS_send_request(ws_req, "trading")
    /\ UNCHANGED otherVars

\* await ws.send(message) returns, or raises on a stream that is not open:
\* the exception leaves _send_request before its try block
WsSendDone ==
    \E id \in ReqIds :
        /\ ws_req.call[id].pc = "send"
        /\ ws_req' = [ws_req EXCEPT !.call[id].pc =
                IF ws[ws_req.call[id].stream] = "open" THEN "wait" ELSE "raised"]
        /\ UNCHANGED <<otherVars, ws>>

\* a frame with id k arrives on a stream whose handler task is receiving
WsFrame ==
    \E s \in Streams, k \in FrameIds :
        /\ ws[s] = "open"
        /\ (IF s = "market" THEN ws.market_task ELSE ws.trading_task) = "recv"
        /\ ws_req' = WS_process_message(ws_req, k)
        /\ UNCHANGED <<otherVars, ws>>

\* wait_for returns the future's result; finally: pop
WsResume ==
    \E id \in ReqIds :
        /\ ws_req.call[id].pc = "wait"
        /\ ws_req.pending[id] = "done"
        /\ ws_req' = [ws_req EXCEPT !.call[id].pc = "result",
                                    !.pending = WS_pop(ws_req.pending, id)]
        /\ UNCHANGED <<otherVars, ws>>

\* wait_for times out after 10 s: _send_request returns None; finally: pop
WsTimeout ==
    \E id \in ReqIds :
        /\ ws_req.call[id].pc = "wait"
        /\ ws_req.pending[id] = "waiting"
        /\ ws_req' = [ws_req EXCEPT !.call[id].pc = "timeout",
                                    !.pending = WS_pop(ws_req.pending, id)]
        /\ UNCHANGED <<otherVars, ws>>

\* ---------------------------------------- TradovateWebSocket: connections
\* connect: _running = True, both streams opened and authorized, the two
\* handler tasks created; any failure is caught and connect returns False
WS_connect(w, ok) ==
    IF ok
    THEN [w EXCEPT !.running = TRUE, !.market = "open", !.trading = "open",
                   !.market_task = "recv", !.trading_task = "recv"]
    ELSE [w EXCEPT !.running = TRUE, !.market_task = "ended", !.trading_task = "ended"]

WsConnect ==
    \E ok \in BOOLEAN :
        /\ ~ws.running
        /\ ws.market = "none"
        /\ ws.trading = "none"
        /\ ws.market_task = "none"
        /\ ws' = WS_connect(ws, ok)
        /\ UNCHANGED <<otherVars, ws_req>>

\* the broker closes a stream: recv raises ConnectionClosed and the handler
\* loop of that stream breaks
WS_stream_closed(w, s) ==
    IF s = "market"
    THEN [w EXCEPT !.market = "closed", !.market_task = "ended"]
    ELSE [w EXCEPT !.trading = "closed", !.trading_task = "ended"]

WsStreamClose ==
    \E s \in Streams :
        /\ ws[s] = "open"
        /\ ws' = WS_stream_closed(ws, s)
        /\ UNCHANGED <<otherVars, ws_req>>

\* disconnect: _running = False, both streams closed and forgotten
WS_disconnect(w) ==
    [w EXCEPT !.running = FALSE, !.market = "none", !.trading = "none",
              !.market_task = IF @ = "none" THEN @ ELSE "ended",
              !.trading_task = IF @ = "none" THEN @ ELSE "ended"]

WsDisconnect ==
    /\ ws.running
    /\ ws' = WS_disconnect(ws)
    /\ UNCHANGED <<otherVars, ws_req>>

\* start_heartbeat: the loop test before each sleep
WS_heartbeat_loop(w) == IF w.running THEN "sleep" ELSE "ended"

\* send_heartbeat after the send on stream s: the trading stream comes
\* after the market stream
WS_heartbeat_next(w, s) ==
    IF s = "market" /\ w.trading # "none" THEN "trading" ELSE WS_heartbeat_loop(w)

\* the heartbeat task after a send has raised: nothing in start_heartbeat
\* or send_heartbeat catches it
WS_heartbeat_failed(w, s) == "dead"

\* TradingBot.start creates the heartbeat task once connect has succeeded
HbStart ==
    /\ ws.running
    /\ ws.market # "none"
    /\ ws.hb = "none"
    /\ ws' = [ws EXCEPT !.hb = WS_heartbeat_loop(ws)]
    /\ UNCHANGED <<otherVars, ws_req>>

\* the sleep of start_heartbeat is over: send_heartbeat begins
HbWake ==
    /\ ws.hb = "sleep"
    /\ ws' = [ws EXCEPT !.beat = "none",
                        !.hb = IF ws.market # "none" THEN "market"
                               ELSE IF ws.trading # "none" THEN "trading"
                               ELSE WS_heartbeat_loop(ws)]
    /\ UNCHANGED <<otherVars, ws_req>>

\* await ws.send("") on the stream the heartbeat has reached
HbSend ==
    \E s \in Streams :
        /\ ws.hb = s
        /\ ws' = IF ws[s] = "open"
                 THEN [ws EXCEPT !.beat = s, !.hb = WS_heartbeat_next(ws, s)]
                 ELSE [ws EXCEPT !.hb = WS_heartbeat_failed(ws, s)]
        /\ UNCHANGED <<otherVars, ws_req>>

\* ------------------------------------------------ TradingBot: decision loop
Signals == {-1, 0, 1}

BotIdle(wake) == [pc |-> "idle", signal |-> 0, action |-> "none", quantity |-> 0, wake |-> wake]

BotInit ==
    /\ now = 0
    /\ bot = BotIdle(0)
    /\ last_trade_time = NoTime
    /\ last_sent = NoTime
    /\ WsInit

\* the cooldown test of _process_symbol
InCooldown(last, t) == last # NoTime /\ t - last < CooldownSeconds

IsFlat(p) == p.side \in {"none", "flat"}

ShouldReverse(p, sig) == (p.side = "long" /\ sig < 0) \/ (p.side = "short" /\ sig > 0)

\* _last_trade_time[symbol] after place_bracket_order has returned
StampEntry(last, order, t) == IF order THEN t ELSE last

\* _last_trade_time[symbol] after flatten_position has returned (its result
\* is not read)
StampFlatten(last, flattened, t) == t

Tick ==
    /\ now < MaxTime
    /\ now' = now + 1
    /\ UNCHANGED <<today, rcVars, omGate, omBook, omStream, bot, last_trade_time, last_sent, wsVars, appVars>>

\* one pass of _process_symbol, up to its return or its first suspension;
\* ready: the indicators, the quote and the stop/target are all available
ProcessSymbolStep(sig, ready) ==
    LET g1 == OM_can_trade_state(om, today)
        position == get_position(Symbol)
        sleep == BotIdle(now + 1)
        action == IF sig > 0 THEN "Buy" ELSE "Sell"
    IN
    /\ run.main = "running"
    /\ run.running
    /\ bot.pc = "idle"
    /\ now >= bot.wake
    /\ IF OM_can_trade(om, today) # "ok"
       THEN /\ om' = g1
            /\ om_ret' = OM_can_trade(om, today)
            /\ bot' = sleep
            /\ UNCHANGED last_sent
       ELSE IF InCooldown(last_trade_time, now) \/ ~ready \/ sig = 0
       THEN /\ om' = g1
            /\ om_ret' = "ok"
            /\ bot' = sleep
            /\ UNCHANGED last_sent
       ELSE IF IsFlat(position)
       THEN \* place_bracket_order: can_trade once more, clamp, post the bracket
            /\ om' = OM_can_trade_state(g1, today)
            /\ om_ret' = OM_can_trade(g1, today)
            /\ IF OM_can_trade(g1, today) # "ok"
               THEN /\ bot' = sleep
                    /\ UNCHANGED last_sent
               ELSE /\ bot' = [pc |-> "await_bracket", signal |-> sig, action |-> action,
                               quantity |-> PlaceQuantity("Bracket", MaxPositionSize),
                               wake |-> bot.wake]
                    /\ last_sent' = now
       ELSE IF ShouldReverse(position, sig)
       THEN \* flatten_position: liquidate_position awaits get_contract
            /\ om' = g1
            /\ om_ret' = "ok"
            /\ bot' = [pc |-> "contract", signal |-> sig, action |-> "none",
                       quantity |-> 0, wake |-> bot.wake]
            /\ UNCHANGED last_sent
       ELSE /\ om' = g1
            /\ om_ret' = "ok"
            /\ bot' = sleep
            /\ UNCHANGED last_sent
    /\ UNCHANGED <<today, rcVars, om_hist, omBook, omStream, now, last_trade_time, wsVars>>

ProcessSymbol(sig, ready) == ProcessSymbolStep(sig, ready) /\ UNCHANGED appVars

\* the broker answers the bracket: place_bracket_order records the order or
\* returns None, _process_symbol stamps the cooldown if it got an order
BotBracketReturn(ok) ==
    /\ bot.pc = "await_bracket"
    /\ IF ok
       THEN /\ orders' = [orders EXCEPT ![next_id] =
                    NewOrder("Bracket", bot.action, bot.quantity)]
            /\ next_id' = next_id + 1
            /\ om' = CountTrade(om, "Bracket")
            /\ accepted' = accepted + 1
            /\ ret' = [task |-> "bot", value |-> "order"]
       ELSE /\ ret' = [task |-> "bot", value |-> "rejected"]
            /\ UNCHANGED <<orders, next_id, om, accepted>>
    /\ last_trade_time' = StampEntry(last_trade_time, ok, now)
    /\ bot' = BotIdle(now + 1)
    /\ om_ret' = "none"
    /\ UNCHANGED <<today, rcVars, om_hist, task, omStream, now, last_sent, wsVars, appVars>>

\* liquidate_position resumes from get_contract: it posts the liquidation,
\* or flatten_position returns False and the cooldown is stamped
BotContractReturn(found) ==
    /\ bot.pc = "contract"
    /\ IF found
       THEN /\ bot' = [bot EXCEPT !.pc = "await_flatten"]
            /\ last_sent' = now
            /\ UNCHANGED <<ret, last_trade_time>>
       ELSE /\ bot' = BotIdle(now + 1)
            /\ ret' = [task |-> "bot", value |-> "false"]
            /\ last_trade_time' = StampFlatten(last_trade_time, FALSE, now)
            /\ UNCHANGED last_sent
    /\ UNCHANGED <<today, rcVars, omGate, orders, next_id, task, accepted, omStream, now, wsVars, appVars>>

\* the broker answers the liquidation: flatten_position writes FLAT if it
\* was accepted, _process_symbol stamps the cooldown either way
BotFlattenReturn(ok) ==
    /\ bot.pc = "await_flatten"
    /\ IF ok
       THEN /\ positions' = FlattenLocal(positions, Symbol)
            /\ fills' = [fills EXCEPT !.net = 0]
            /\ ret' = [task |-> "bot", value |-> "true"]
       ELSE /\ ret' = [task |-> "bot", value |-> "false"]
            /\ UNCHANGED <<positions, fills>>
    /\ last_trade_time' = StampFlatten(last_trade_time, ok, now)
    /\ bot' = BotIdle(now + 1)
    /\ UNCHANGED <<today, rcVars, omGate, orders, next_id, task, accepted, on_fill, now, last_sent, wsVars, appVars>>

\* the broker executes part of a working order.  The bot registers no
\* on_fill callback with the websocket client, so the fill event is dropped
\* by _handle_trading_event
BotExecution ==
    \E id \in OrderIds, q \in Quantities :
        /\ orders[id].status = "working"
        /\ Abs(fills.net + Signed(orders[id].action, q)) <= orders[id].quantity
        /\ fills' = [fills EXCEPT !.net = @ + Signed(orders[id].action, q)]
        /\ UNCHANGED <<today, rcVars, omGate, omBook, positions, on_fill, botVars, appVars>>

\* a child of a bracket closes the open position at the broker
BotChildExecution ==
    /\ fills.net # 0
    /\ fills' = [fills EXCEPT !.net = 0]
    /\ UNCHANGED <<today, rcVars, omGate, omBook, positions, on_fill, botVars, appVars>>

BotCycle == \E sig \in Signals, ready \in BOOLEAN : ProcessSymbol(sig, ready)

\* the outcomes of a REST call of the bot: once the session is closed the
\* request raises inside _request, which returns None
CL_answers(c) == IF c.session THEN BOOLEAN ELSE {FALSE}

BotBracketAnswer == \E ok \in CL_answers(client) : BotBracketReturn(ok)

BotContractAnswer == \E found \in CL_answers(client) : BotContractReturn(found)

BotFlattenAnswer == \E ok \in CL_answers(client) : BotFlattenReturn(ok)

\* ------------------------------------------------------- TradovateClient
\* response.status of a REST answer: served, authentication failure, other
Statuses == {200, 401, 500}

ClientInit ==
    client = [session |-> FALSE, access_token |-> FALSE, token_expiry |-> NoTime,
              pc |-> "idle", sent |-> 0, auths |-> 0, denied |-> FALSE, ret |-> "none"]

\* _authenticate: the token and its expiry are stored on a 200 answer that
\* carries an accessToken; any other outcome leaves both as they were
CL_authenticate(c, ok, t) ==
    IF ok THEN [c EXCEPT !.access_token = TRUE, !.token_expiry = t + TokenLife]
    ELSE c

\* _ensure_authenticated: "raise" without a token, "auth" when the token
\* expires within the margin, "go" otherwise
CL_ensure_authenticated(c, t) ==
    IF ~c.access_token THEN "raise"
    ELSE IF c.token_expiry # NoTime /\ t > c.token_expiry - RenewMargin THEN "auth"
    ELSE "go"

\* what _request returns for an answer: the JSON body on 200, None otherwise
CL_request_result(status) == IF status = 200 THEN "json" ELSE "None"

\* connect: a session is opened and _authenticate is awaited
ClConnect ==
    /\ client.pc = "idle"
    /\ ~client.session
    /\ \E ok \in BOOLEAN :
        client' = CL_authenticate([client EXCEPT !.session = TRUE], ok, now)
    /\ UNCHANGED <<coreVars, run, libVars>>

ClDisconnect ==
    /\ client.pc = "idle"
    /\ client.session
    /\ client' = [client EXCEPT !.session = FALSE, !.access_token = FALSE]
    /\ UNCHANGED <<coreVars, run, libVars>>

\* _request, up to its first suspension; sent, auths and denied count the
\* HTTP requests, the _authenticate calls and the 401 answers of this call
ClRequest ==
    LET c == [client EXCEPT !.sent = 0, !.auths = 0, !.denied = FALSE, !.ret = "none"]
        e == CL_ensure_authenticated(client, now)
    IN
    /\ client.pc = "idle"
    /\ client.session
    /\ client' = IF e = "raise" THEN [c EXCEPT !.ret = "raise"]
                 ELSE IF e = "auth" THEN [c EXCEPT !.pc = "auth", !.auths = 1]
                 ELSE [c EXCEPT !.pc = "sent", !.sent = 1]
    /\ UNCHANGED <<coreVars, run, libVars>>

\* the proactive _authenticate returns; its result is not read and the
\* request is sent with whatever token is stored
ClAuthAnswer ==
    /\ client.pc = "auth"
    /\ \E ok \in BOOLEAN :
        client' = [CL_authenticate(client, ok, now) EXCEPT !.pc = "sent", !.sent = @ + 1]
    /\ UNCHANGED <<coreVars, run, libVars>>

\* the answer of the HTTP request arrives and _request returns
ClResponse ==
    /\ client.pc = "sent"
    /\ \E status \in Statuses :
        client' = [client EXCEPT !.pc = "idle",
                                 !.denied = @ \/ status = 401,
                                 !.ret = CL_request_result(status)]
    /\ UNCHANGED <<coreVars, run, libVars>>

\* ------------------------------------------ TradingBot: start and stop
RunInit ==
    run = [running |-> FALSE, main |-> "none", sentiment |-> "none",
           stop |-> "none", todo |-> {}, cancelled |-> {}, failed |-> FALSE]

\* start, when every step of it succeeds: the client and the websocket are
\* connected, _running is set, and the main loop, the heartbeat and the
\* sentiment loop are created as tasks.  A failed connect returns False
\* before any of that.
BotStart ==
    /\ run.main = "none"
    /\ run.stop = "none"
    /\ ~client.session
    /\ ~ws.running
    /\ \E outcome \in {"started", "no client", "no websocket"} :
        LET c == CL_authenticate([client EXCEPT !.session = TRUE], outcome # "no client", now)
            w == WS_connect(ws, outcome = "started")
        IN
        /\ client' = c
        /\ ws' = IF outcome = "no client" THEN ws
                 ELSE IF outcome = "no websocket" THEN w
                 ELSE [w EXCEPT !.hb = WS_heartbeat_loop(w)]
        /\ run' = IF outcome = "started"
                  THEN [run EXCEPT !.running = TRUE, !.main = "running", !.sentiment = "update"]
                  ELSE run
    /\ UNCHANGED <<today, rcVars, omGate, omBook, omStream, now, bot, last_trade_time, last_sent, ws_req, libVars>>

\* the sleep of the main loop is over (the clock of the model stops at
\* MaxTime: a sleep that is pending then is over as well)
SleepOver(wake) == now >= wake \/ now = MaxTime

\* `while self._running` of _main_loop is false: the task ends
BotLoopExit ==
    /\ run.main = "running"
    /\ ~run.running
    /\ bot.pc = "idle"
    /\ SleepOver(bot.wake)
    /\ run' = [run EXCEPT !.main = "ended"]
    /\ UNCHANGED <<coreVars, client, libVars>>

\* _update_sentiment returns (it catches what its collectors raise) and the
\* sentiment loop sleeps
SentimentUpdated ==
    /\ run.sentiment = "update"
    /\ run' = [run EXCEPT !.sentiment = "sleep"]
    /\ UNCHANGED <<coreVars, client, libVars>>

\* the sleep of the sentiment loop is over: `while self._running`
SentimentWake ==
    /\ run.sentiment = "sleep"
    /\ run' = [run EXCEPT !.sentiment = IF run.running THEN "update" ELSE "ended"]
    /\ UNCHANGED <<coreVars, client, libVars>>

\* an order of the bot that is working at the broker
WorkingAtBroker(id) == orders[id].status = "working" /\ id \notin run.cancelled

\* stop, up to its first suspension: _running = False, then
\* cancel_all_orders awaits client.get_orders
StopCall ==
    /\ run.main # "none"
    /\ run.stop = "none"
    /\ run' = [run EXCEPT !.running = FALSE, !.stop = "get_orders"]
    /\ UNCHANGED <<coreVars, client, libVars>>

\* stop after cancel_all_orders has returned: websocket.disconnect is next
StopAfterCancel(r, todo) == IF todo = {} THEN "websocket" ELSE "cancel"

\* the answer to order/list: the list of the working orders, None (an error
\* status or an exception inside _request; get_orders turns it into []), or
\* a JSON object, on which `for order in orders: order.get(...)` raises
StopOrdersAnswer ==
    /\ run.stop = "get_orders"
    /\ \E answer \in {"list", "None", "object"} :
        LET working == {id \in OrderIds : WorkingAtBroker(id)} IN
        run' = IF answer = "list"
               THEN [run EXCEPT !.todo = working, !.stop = StopAfterCancel(run, working)]
               ELSE IF answer = "None"
               THEN [run EXCEPT !.failed = TRUE, !.stop = "websocket"]
               ELSE [run EXCEPT !.failed = TRUE, !.stop = "raised"]
    /\ UNCHANGED <<coreVars, client, libVars>>

\* the answer to the cancel request of the next order in the list; a
\* refusal is counted out, not retried
StopCancelAnswer ==
    /\ run.stop = "cancel"
    /\ \E ok \in BOOLEAN :
        LET id == CHOOSE i \in run.todo : \A j \in run.todo : i <= j
            rest == run.todo \ {id}
        IN
        run' = [run EXCEPT !.todo = rest,
                           !.cancelled = IF ok THEN @ \cup {id} ELSE @,
                           !.failed = @ \/ ~ok,
                           !.stop = StopAfterCancel(run, rest)]
    /\ UNCHANGED <<coreVars, client, libVars>>

\* stop: await self.websocket.disconnect()
StopWebsocket ==
    /\ run.stop = "websocket"
    /\ ws' = WS_disconnect(ws)
    /\ run' = [run EXCEPT !.stop = "client"]
    /\ UNCHANGED <<today, rcVars, omGate, omBook, omStream, now, bot, last_trade_time, last_sent, ws_req, client, libVars>>

\* stop: await self.client.disconnect(), and stop returns
StopClient ==
    /\ run.stop = "client"
    /\ client' = [client EXCEPT !.session = FALSE, !.access_token = FALSE]
    /\ run' = [run EXCEPT !.stop = "done"]
    /\ UNCHANGED <<coreVars, libVars>>

\* ---------------------------------------------------- MarketDataHandler
MdSymbols == {Symbol, "MESH5"}

\* the bars of one historical chart answer
ChartSizes == 0..2

\* an item of a ring is named by its arrival number
MdInit ==
    md = [serial |-> 0,
          ticks |-> [s \in MdSymbols |-> <<>>],
          bars |-> [s \in MdSymbols |-> <<>>],
          current_bar |-> [s \in MdSymbols |-> FALSE],
          arrived_ticks |-> [s \in MdSymbols |-> <<>>],
          arrived_bars |-> [s \in MdSymbols |-> <<>>]]

\* an append that never evicts
deque_append_Unbounded(d, x, maxlen) == Append(d, x)

\* deque(maxlen=...).append: a full deque drops its leftmost item first
deque_append(d, x, maxlen) ==
    IF maxlen = 0 THEN d
    ELSE IF Len(d) >= maxlen THEN Append(Tail(d), x)
    ELSE Append(d, x)

\* process_tick: the tick is stored, then the forming bar is created or updated
MdTick ==
    \E s \in MdSymbols :
        LET n == md.serial + 1 IN
        /\ md.serial < MaxArrivals
        /\ md' = [md EXCEPT !.serial = n,
                            !.ticks[s] = deque_append(@, n, max_ticks),
                            !.current_bar[s] = TRUE,
                            !.arrived_ticks[s] = Append(@, n)]
        /\ UNCHANGED <<coreVars, clVars, run, ind, dec, svcVars>>

\* process_bar: a complete bar is stored, an incomplete one becomes the
\* forming bar
MdBar ==
    \E s \in MdSymbols, complete \in BOOLEAN :
        LET n == md.serial + 1 IN
        /\ md.serial < MaxArrivals
        /\ md' = IF complete
                 THEN [md EXCEPT !.serial = n,
                                 !.bars[s] = deque_append(@, n, max_bars),
                                 !.arrived_bars[s] = Append(@, n)]
                 ELSE [md EXCEPT !.serial = n, !.current_bar[s] = TRUE]
        /\ UNCHANGED <<coreVars, clVars, run, ind, dec, svcVars>>

\* process_chart_data: every bar of the answer is stored, in its order
RECURSIVE chart_append(_, _, _)
chart_append(m, s, k) ==
    IF k = 0 THEN m
    ELSE chart_append([m EXCEPT !.serial = @ + 1,
                                !.bars[s] = deque_append(@, m.serial + 1, max_bars),
                                !.arrived_bars[s] = Append(@, m.serial + 1)], s, k - 1)

MdChart ==
    \E s \in MdSymbols, k \in ChartSizes :
        /\ md.serial + k <= MaxArrivals
        /\ md' = chart_append(md, s, k)
        /\ UNCHANGED <<coreVars, clVars, run, ind, dec, svcVars>>

CoreInit == GateInit /\ BookInit /\ StreamInit /\ BotInit /\ ClientInit /\ RunInit

\* --------------------------------------------------- TechnicalIndicators
\* A price p is the integer p * Scale, so that every EMA the bounded runs
\* produce is an integer and the float arithmetic of the code is exact here.
Scale == 6 ^ (MaxSteps + 2)

ClosePrices == {1 * Scale, 3 * Scale}

\* the lists of closes handed to calculate_from_bars, oldest first
CloseLists == UNION {[1..n -> ClosePrices] : n \in 0..(slow_ema_period + 1)}

\* a dict without the key, and a key that holds None
Absent == -2
None == -1

\* dict.get(symbol)
Get(x) == IF x = Absent THEN None ELSE x

\* IndicatorValues(symbol): the defaults of the dataclass
NoValues ==
    [ema_fast |-> None, ema_slow |-> None,
     cross_up |-> FALSE, cross_down |-> FALSE, signal |-> 0, raised |-> FALSE]

IndInit ==
    ind = [ema_fast |-> Absent, ema_slow |-> Absent,
           prev_ema_fast |-> Absent, prev_ema_slow |-> Absent,
           values |-> NoValues, steps |-> 0,
           before_fast |-> None, before_slow |-> None, close |-> None]

\* (price - ema) * multiplier + ema, with multiplier 2 / (period + 1)
ema_next(ema, price, period) == ema + ((price - ema) * 2) \div (period + 1)

RECURSIVE SumSeq(_)
SumSeq(s) == IF s = <<>> THEN 0 ELSE Head(s) + SumSeq(Tail(s))

\* _calculate_ema: the SMA of the first period prices, then one EMA per
\* later price; empty when there are fewer prices than the period
RECURSIVE ema_rest(_, _, _, _)
ema_rest(ema, prices, i, period) ==
    IF i > Len(prices) THEN ema
    ELSE ema_rest(Append(ema, ema_next(ema[Len(ema)], prices[i], period)), prices, i + 1, period)

calculate_ema(prices, period) ==
    IF Len(prices) < period THEN <<>>
    ELSE ema_rest(<<SumSeq(SubSeq(prices, 1, period)) \div period>>, prices, period + 1, period)

\* a crossover test that wants the previous fast EMA strictly below
detect_crossover_Strict(i) ==
    IF None \in {Get(i.ema_fast), Get(i.ema_slow), Get(i.prev_ema_fast), Get(i.prev_ema_slow)}
    THEN [cross_up |-> FALSE, cross_down |-> FALSE]
    ELSE [cross_up |-> i.prev_ema_fast < i.prev_ema_slow /\ i.ema_fast > i.ema_slow,
          cross_down |-> i.prev_ema_fast > i.prev_ema_slow /\ i.ema_fast < i.ema_slow]

\* _detect_crossover
detect_crossover(i) ==
    IF None \in {Get(i.ema_fast), Get(i.ema_slow), Get(i.prev_ema_fast), Get(i.prev_ema_slow)}
    THEN [cross_up |-> FALSE, cross_down |-> FALSE]
    ELSE [cross_up |-> i.prev_ema_fast <= i.prev_ema_slow /\ i.ema_fast > i.ema_slow,
          cross_down |-> i.prev_ema_fast >= i.prev_ema_slow /\ i.ema_fast < i.ema_slow]

\* the IndicatorValues that update, calculate_from_bars and get_values build
indicator_values(i) ==
    LET x == detect_crossover(i) IN
    [ema_fast |-> Get(i.ema_fast), ema_slow |-> Get(i.ema_slow),
     cross_up |-> x.cross_up, cross_down |-> x.cross_down,
     signal |-> IF x.cross_up THEN 1 ELSE IF x.cross_down THEN -1 ELSE 0,
     raised |-> FALSE]

\* update: the previous values are stored first, then each EMA is advanced
\* or started; an EMA whose key holds None raises TypeError at its line and
\* leaves what was assigned before it
IND_update(i, close) ==
    LET p == [i EXCEPT !.prev_ema_fast = Get(i.ema_fast), !.prev_ema_slow = Get(i.ema_slow)]
        f == [p EXCEPT !.ema_fast = IF @ = Absent THEN close ELSE ema_next(@, close, fast_ema_period)]
        s == [f EXCEPT !.ema_slow = IF @ = Absent THEN close ELSE ema_next(@, close, slow_ema_period)]
    IN
    IF i.ema_fast = None THEN [p EXCEPT !.values = [NoValues EXCEPT !.raised = TRUE]]
    ELSE IF i.ema_slow = None THEN [f EXCEPT !.values = [NoValues EXCEPT !.raised = TRUE]]
    ELSE [s EXCEPT !.values = indicator_values(s)]

\* calculate_from_bars: the last value of each series is stored (None for an
\* empty series), the previous one only if the series has two values
IND_calculate_from_bars(i, closes) ==
    LET ema_fast == calculate_ema(closes, fast_ema_period)
        ema_slow == calculate_ema(closes, slow_ema_period)
        last(e) == IF e = <<>> THEN None ELSE e[Len(e)]
        s == [i EXCEPT !.ema_fast = last(ema_fast),
                       !.ema_slow = last(ema_slow),
                       !.prev_ema_fast = IF Len(ema_fast) >= 2 THEN ema_fast[Len(ema_fast) - 1] ELSE @,
                       !.prev_ema_slow = IF Len(ema_slow) >= 2 THEN ema_slow[Len(ema_slow) - 1] ELSE @]
    IN
    IF closes = <<>> THEN [i EXCEPT !.values = NoValues]
    ELSE [s EXCEPT !.values = indicator_values(s)]

\* history: the value an EMA had immediately before the step that produced
\* its current value (None: there was no such value)
IndBefore(old, new, series) ==
    IF new.values.raised \/ series = <<>> THEN old
    ELSE [fast |-> IF Len(series.fast) >= 2 THEN series.fast[Len(series.fast) - 1] ELSE None,
          slow |-> IF Len(series.slow) >= 2 THEN series.slow[Len(series.slow) - 1] ELSE None]

IndUpdate ==
    \E close \in ClosePrices :
        LET n == IND_update(ind, close)
            b == IndBefore([fast |-> ind.before_fast, slow |-> ind.before_slow], n,
                           [fast |-> <<Get(ind.ema_fast), n.ema_fast>>,
                            slow |-> <<Get(ind.ema_slow), n.ema_slow>>])
        IN
        /\ ind.steps < MaxSteps
        /\ ind' = [n EXCEPT !.steps = @ + 1, !.before_fast = b.fast, !.before_slow = b.slow,
                             !.close = close]
        /\ UNCHANGED <<coreVars, clVars, run, md, dec, svcVars>>

IndCalculateFromBars ==
    \E closes \in CloseLists :
        LET n == IND_calculate_from_bars(ind, closes)
            b == IndBefore([fast |-> ind.before_fast, slow |-> ind.before_slow], n,
                           IF closes = <<>> THEN <<>>
                           ELSE [fast |-> calculate_ema(closes, fast_ema_period),
                                 slow |-> calculate_ema(closes, slow_ema_period)])
        IN
        /\ ind.steps < MaxSteps
        /\ ind' = [n EXCEPT !.steps = @ + 1, !.before_fast = b.fast, !.before_slow = b.slow,
                             !.close = None]
        /\ UNCHANGED <<coreVars, clVars, run, md, dec, svcVars>>

\* get_values
IndGetValues ==
    /\ ind.steps < MaxSteps
    /\ ind' = [ind EXCEPT !.steps = @ + 1, !.values = indicator_values(ind), !.close = None]
    /\ UNCHANGED <<coreVars, clVars, run, md, dec, svcVars>>

\* ------------------------------------- RiskCalculator: position sizing
\* A confidence or a score x is the integer 1000 * x; a volatility v and a
\* price p are integers, 0 standing for None (both are tested for truth).
Confidences == {500, 550, 650, 700, 750, 850, 950, 1000}
Scores == {-700, 0, 600, 700}
Volatilities == 0..3
CurrentPrices == {0, 100}

\* _calculate_base_size
calculate_base_size(confidence) ==
    IF confidence < 550 THEN 0
    ELSE IF confidence < 650 THEN 1
    ELSE IF confidence < 750 THEN 2
    ELSE IF confidence < 850 THEN 3
    ELSE IF confidence < 950 THEN 4
    ELSE Min(5, rc_max_position_size)

Max(a, b) == IF a > b THEN a ELSE b

\* _adjust_for_volatility: vol_pct = volatility / price against 0.02 and
\* 0.01; base_size // 2 and int(base_size * 0.75)
adjust_for_volatility(base_size, volatility, price) ==
    IF volatility * 100 > 2 * price THEN Max(1, base_size \div 2)
    ELSE IF volatility * 100 > price THEN Max(1, (base_size * 3) \div 4)
    ELSE base_size

\* calculate: the gate first, then the size
RC_calculate(g, d, confidence, volatility, price) ==
    LET reason == RC_check_trading_allowed(g, d)
        base_size == calculate_base_size(confidence)
    IN
    IF reason # "ok"
    THEN [position_size |-> 0, can_trade |-> FALSE, reason |-> reason]
    ELSE [position_size |-> IF volatility # 0 /\ price # 0
                            THEN adjust_for_volatility(base_size, volatility, price)
                            ELSE base_size,
          can_trade |-> TRUE, reason |-> ""]

\* ------------------------------------------------------ SignalGenerator
SentimentActions == {"BUY", "SELL", "HOLD"}

\* technical_signal: -1, 0, +1, or None
NoTechnical == 2
Technicals == {-1, 0, 1, NoTechnical}

\* the LLM adjudication of a call: not enabled, the analyzer not available,
\* the model call raising, an answer that is no JSON, an answer that is JSON
\* but no object, an object without the keys, or a decision
LlmFailures == {"unavailable", "error", "unparsable"}
LlmOutcomes ==
    [kind : {"off", "no object", "empty object"} \cup LlmFailures, action : {"HOLD"}, confidence : {0}]
        \cup [kind : {"decision"}, action : SentimentActions, confidence : {800}]

\* a combination without the boost of agreeing signals
combine_signals_NoBoost(sentiment_action, sentiment_confidence, sentiment_score, technical_signal) ==
    [action |-> sentiment_action, confidence |-> sentiment_confidence]

\* _combine_signals
combine_signals(sentiment_action, sentiment_confidence, sentiment_score, technical_signal) ==
    LET sentiment_numeric == IF sentiment_action = "BUY" THEN 1
                             ELSE IF sentiment_action = "SELL" THEN -1 ELSE 0
    IN
    IF sentiment_numeric = technical_signal
    THEN [action |-> sentiment_action, confidence |-> Min(1000, (sentiment_confidence * 12) \div 10)]
    ELSE IF sentiment_numeric = -technical_signal
    THEN IF Abs(sentiment_score) > 600 /\ sentiment_confidence > 700
         THEN [action |-> sentiment_action, confidence |-> (sentiment_confidence * 6) \div 10]
         ELSE [action |-> "HOLD", confidence |-> 300]
    ELSE IF technical_signal = 0
    THEN [action |-> sentiment_action, confidence |-> (sentiment_confidence * 9) \div 10]
    ELSE [action |-> IF technical_signal = 1 THEN "BUY" ELSE "SELL", confidence |-> 500]

\* generate_trading_decision: what it returns.  Every failure inside it is
\* answered with a HOLD of confidence 0; the JSON text of the model is
\* returned as parsed, an object or not
generate_trading_decision(llm) ==
    IF llm.kind \in LlmFailures THEN [kind |-> "decision", action |-> "HOLD", confidence |-> 0]
    ELSE llm

\* a final quantity without the clamp
final_quantity_Unclamped(final_action, position_size) ==
    IF final_action = "HOLD" THEN 0 ELSE position_size

\* the final quantity of generate
final_quantity(final_action, position_size) ==
    IF final_action = "HOLD" THEN 0 ELSE Min(position_size, rc_max_position_size)

NoSignal ==
    [calls |-> 0, risk |-> [position_size |-> 0, can_trade |-> FALSE, reason |-> ""],
     rule |-> [action |-> "HOLD", confidence |-> 0],
     action |-> "HOLD", quantity |-> 0, confidence |-> 0, reasoning |-> ""]

\* generate; rule is the action and confidence before the LLM adjudication
SG_generate(in, g, d) ==
    LET risk_params == RC_calculate(g, d, in.confidence, in.volatility, in.price)
        rule == IF in.technical # NoTechnical
                THEN combine_signals(in.action, in.confidence, in.score, in.technical)
                ELSE [action |-> in.action, confidence |-> in.confidence]
        gemini_decision == generate_trading_decision(in.llm)
        \* .get on something that is no object raises into generate's except;
        \* .get on an object without the keys returns the defaults
        final == IF in.llm.kind = "off" \/ gemini_decision.kind \in {"no object", "empty object"}
                 THEN rule
                 ELSE [action |-> gemini_decision.action, confidence |-> gemini_decision.confidence]
    IN
    IF ~risk_params.can_trade
    THEN [NoSignal EXCEPT !.risk = risk_params, !.reasoning = risk_params.reason]
    ELSE [risk |-> risk_params, rule |-> rule, calls |-> 0,
          action |-> final.action,
          quantity |-> final_quantity(final.action, risk_params.position_size),
          confidence |-> final.confidence,
          reasoning |-> "decision"]

\* the arguments of the calls of one run
DecideInputs ==
    [action : SentimentActions, confidence : Confidences, score : Scores,
     technical : Technicals, volatility : Volatilities, price : CurrentPrices,
     llm : LlmOutcomes]

\* BotConfig: both sources of the direction enabled
use_sentiment == TRUE
use_technicals == TRUE

\* TradingBot._get_trading_signal: cached is whether _sentiment_cache has
\* the symbol, action and confidence are those of the cached sentiment
get_trading_signal(technical_signal, cached, sentiment_action, sentiment_confidence) ==
    LET sentiment_signal == IF sentiment_action = "BUY" THEN 1
                            ELSE IF sentiment_action = "SELL" THEN -1 ELSE 0
    IN
    IF ~use_sentiment THEN technical_signal
    ELSE IF ~cached THEN (IF use_technicals THEN technical_signal ELSE 0)
    ELSE IF sentiment_confidence < confidence_threshold * 10
    THEN (IF use_technicals THEN technical_signal ELSE 0)
    ELSE IF use_technicals
    THEN IF technical_signal = sentiment_signal THEN technical_signal
         ELSE IF technical_signal # 0 /\ sentiment_signal = 0 THEN technical_signal
         ELSE IF technical_signal = 0 /\ sentiment_signal # 0
         THEN (IF sentiment_confidence > 700 THEN sentiment_signal ELSE 0)
         ELSE 0
    ELSE sentiment_signal

NoBotSignal == [called |-> FALSE, cached |-> FALSE, value |-> 0]

DecideInit == dec \in [in : DecideInputs, out : {NoSignal}, signal : {NoBotSignal}]

DecideIdle ==
    dec = [in |-> [action |-> "HOLD", confidence |-> 500, score |-> 0, technical |-> NoTechnical,
                   volatility |-> 0, price |-> 0,
                   llm |-> [kind |-> "off", action |-> "HOLD", confidence |-> 0]],
           out |-> NoSignal, signal |-> NoBotSignal]

\* _get_trading_signal is called with the signal of the indicators, which
\* is -1, 0 or +1
GetTradingSignal ==
    \E cached \in BOOLEAN :
        /\ dec.in.technical # NoTechnical
        /\ dec' = [dec EXCEPT !.signal =
                        [called |-> TRUE, cached |-> cached,
                         value |-> get_trading_signal(dec.in.technical, cached, dec.in.action, dec.in.confidence)]]
        /\ UNCHANGED <<coreVars, clVars, run, md, ind, svcVars>>

\* generate is called: the gate of the RiskCalculator is consulted (and its
\* date reset applied), the signal is returned
Generate ==
    /\ dec' = [dec EXCEPT !.out = [SG_generate(dec.in, rc, today) EXCEPT !.calls = 1]]
    /\ rc' = RC_new_day(rc, today)
    /\ rc_ret' = RC_check_trading_allowed(rc, today)
    /\ UNCHANGED <<today, rc_hist, omGate, omBook, omStream, botVars, clVars, run, md, ind, svcVars>>

\* ------------------------------------------------ SentimentAggregator
\* The floats of the aggregator are exact fractions [n, d] with d > 0, kept
\* in lowest terms.
RECURSIVE GCD(_, _)
GCD(a, b) == IF b = 0 THEN a ELSE GCD(b, a % b)

Rat(n, d) ==
    LET s == IF d < 0 THEN -1 ELSE 1
        g == GCD(Abs(n), Abs(d))
    IN [n |-> (s * n) \div g, d |-> (s * d) \div g]

RAdd(x, y) == Rat(x.n * y.d + y.n * x.d, x.d * y.d)
RSub(x, y) == Rat(x.n * y.d - y.n * x.d, x.d * y.d)
RMul(x, y) == Rat(x.n * y.n, x.d * y.d)
RDiv(x, y) == Rat(x.n * y.d, x.d * y.n)
RLess(x, y) == x.n * y.d < y.n * x.d
RMin(x, y) == IF RLess(y, x) THEN y ELSE x
Zero == Rat(0, 1)
One == Rat(1, 1)

\* DataSource, in the order of the enumeration, and the source weights
Sources == <<"twitter", "reddit", "news">>
source_weights == [twitter |-> Rat(3, 10), reddit |-> Rat(3, 10), news |-> Rat(4, 10)]

\* The data of a call: per source, n recent items of one sentiment score and
\* one weight (time weight * engagement score * base confidence, 0 when the
\* engagement is 0), and a number of items older than the time window.
ItemCounts == {0, 5, 10}
ItemScores == {Rat(-1, 1), Rat(-3, 10), Rat(3, 10), Rat(1, 1)}
ItemWeights == {Zero, One}
StaleCounts == {0, 5}
AggInputs ==
    [items : [{"twitter", "reddit", "news"} -> [n : ItemCounts, score : ItemScores, weight : ItemWeights]],
     stale : StaleCounts]

\* an action that looks at the score alone
determine_action_ScoreOnly(score, confidence) ==
    IF RLess(Rat(3, 10), score) THEN "BUY"
    ELSE IF RLess(score, Rat(-3, 10)) THEN "SELL"
    ELSE "HOLD"

\* _determine_action
determine_action(score, confidence) ==
    IF RLess(confidence, Rat(confidence_threshold, 100)) THEN "HOLD"
    ELSE IF RLess(Rat(3, 10), score) THEN "BUY"
    ELSE IF RLess(score, Rat(-3, 10)) THEN "SELL"
    ELSE "HOLD"

\* _empty_result
empty_result ==
    [calls |-> 0, composite_score |-> Zero, confidence |-> Zero, action |-> "HOLD", data_points |-> 0]

\* the weighted average and the confidence of one source with scores
\* (n items of score s and weight w: the sums of the code, term by term)
source_total_weight(g) == RMul(Rat(g.n, 1), g.weight)
source_average(g) == RDiv(RMul(Rat(g.n, 1), RMul(g.score, g.weight)), source_total_weight(g))
source_confidence(g) ==
    LET d == RSub(g.score, source_average(g))
        variance == RDiv(RMul(Rat(g.n, 1), RMul(RMul(d, d), g.weight)), source_total_weight(g))
        consistency == RDiv(One, RAdd(One, variance))
        volume_factor == RMin(One, Rat(g.n, 10))
    IN RMul(consistency, volume_factor)

\* the sources that got an average: some item, and a total weight above 0
Averaged(items, s) == items[s].n > 0 /\ RLess(Zero, source_total_weight(items[s]))

\* the sums over the sources with an average, in the order of the dict
SumSources(items, Term(_)) ==
    LET T(i) == IF Averaged(items, Sources[i]) THEN Term(Sources[i]) ELSE Zero
    IN RAdd(RAdd(T(1), T(2)), T(3))

\* aggregate
aggregate(in) ==
    LET items == in.items
        recent == items.twitter.n + items.reddit.n + items.news.n
        k == Cardinality({s \in DOMAIN items : Averaged(items, s)})
        Conf(s) == source_confidence(items[s])
        WeightedScore(s) == RMul(RMul(source_average(items[s]), source_weights[s]), Conf(s))
        Weight(s) == RMul(source_weights[s], Conf(s))
        total_weight == SumSources(items, Weight)
        composite_sum == SumSources(items, WeightedScore)
        composite_score == IF RLess(Zero, total_weight) THEN RDiv(composite_sum, total_weight)
                           ELSE composite_sum
        Deviation(s) == LET d == RSub(source_average(items[s]), composite_score) IN RMul(d, d)
        agreement_factor ==
            IF k > 1
            THEN RDiv(One, RAdd(One, RMul(RDiv(SumSources(items, Deviation), Rat(k, 1)), Rat(4, 1))))
            ELSE Rat(7, 10)
        volume_factor == RMin(One, Rat(recent, 20))
        avg_source_confidence == RDiv(SumSources(items, Conf), Rat(Max(1, k), 1))
        overall_confidence == RMul(RMul(agreement_factor, volume_factor), avg_source_confidence)
    IN
    IF recent = 0 THEN empty_result
    ELSE [calls |-> 0, composite_score |-> composite_score, confidence |-> overall_confidence,
          action |-> determine_action(composite_score, overall_confidence),
          data_points |-> recent]

AggInit == agg \in [in : AggInputs, out : {empty_result}]

AggIdle ==
    agg = [in |-> [items |-> [s \in {"twitter", "reddit", "news"} |-> [n |-> 0, score |-> Rat(1, 1), weight |-> Zero]],
                   stale |-> 0],
           out |-> empty_result]

\* aggregate is called on the data
Aggregate ==
    /\ agg' = [agg EXCEPT !.out = [aggregate(agg.in) EXCEPT !.calls = 1]]
    /\ UNCHANGED <<coreVars, clVars, run, md, ind, dec, srv, cbar, oso>>

\* ------------------------------------------------------- signal server
SrvSymbols == {"MNQ", "ES"}

\* what the collectors return for a symbol
DataClasses == {"empty", "bull", "bear"}

\* the LLM adjudications of the server (its analyzer is passed only when
\* initialized)
SrvLlm == {l \in LlmOutcomes : l.kind \in {"off", "error"} \/ (l.kind = "decision" /\ l.action = "SELL")}

Group(n, score) == [n |-> n, score |-> score, weight |-> One]

DataOf(cls) ==
    LET none == Group(0, One)
        g == IF cls = "bull" THEN Group(10, One)
             ELSE IF cls = "bear" THEN Group(10, Rat(-1, 1))
             ELSE none
    IN [items |-> [twitter |-> g, reddit |-> g, news |-> none],
        stale |-> 0]

\* a float of the aggregator in thousandths
Mille(r) == (r.n * 1000) \div r.d

\* the reply of the facade: to_ninja_response of a signal
Reply(status, case, action, qty, confidence) ==
    [served |-> TRUE, status |-> status, case |-> case,
     action |-> action, qty |-> qty, confidence |-> confidence]

NoReply == [served |-> FALSE, status |-> 0, case |-> "none", action |-> "none", qty |-> 0, confidence |-> 0]
NoEntry == [has |-> FALSE, at |-> 0, action |-> "HOLD", qty |-> 0, confidence |-> 0]

SrvInit ==
    srv = [service |-> FALSE,
           cache |-> [s \in SrvSymbols |-> NoEntry],
           data |-> [s \in SrvSymbols |-> "absent"],
           killed |-> FALSE,
           resp |-> NoReply]

\* lifespan: the global service is created and initialized
SrvStartup ==
    /\ ~srv.service
    /\ srv' = [srv EXCEPT !.service = TRUE]
    /\ UNCHANGED <<coreVars, clVars, run, md, ind, dec, agg, cbar, oso>>

\* _collect_data_for_symbol from the background task.  A call within 30
\* seconds of the last collection returns at once, which leaves the cache
\* as a collection of the same data does.
SrvCollect ==
    \E sym \in SrvSymbols, cls \in DataClasses :
        /\ srv.service
        /\ srv' = [srv EXCEPT !.data[sym] = cls]
        /\ UNCHANGED <<coreVars, clVars, run, md, ind, dec, agg, cbar, oso>>

\* TTLCache.get
cache_get(entry, t) == entry.has /\ t - entry.at < signal_ttl

\* the signal SignalService.get_signal computes from the data of a class
Aggregated == [cls \in DataClasses |-> aggregate(DataOf(cls))]

\* the arguments generate gets from an AggregatedSentiment
SRV_arguments(a, llm) ==
    [action |-> a.action, confidence |-> Mille(a.confidence),
     score |-> Mille(a.composite_score), technical |-> NoTechnical,
     volatility |-> 0, price |-> 0, llm |-> llm]

SRV_signal(cls, llm, g, d) == SG_generate(SRV_arguments(Aggregated[cls], llm), g, d)

\* the service after it has computed, cached and returned a signal
SRV_served(s, sym, data, killed, signal, t) ==
    [s EXCEPT !.killed = killed, !.data[sym] = data,
              !.cache[sym] = [has |-> TRUE, at |-> t, action |-> signal.action,
                              qty |-> signal.quantity, confidence |-> signal.confidence],
              !.resp = Reply(200, "signal", signal.action, signal.quantity, signal.confidence)]

\* GET /signal, the handler and SignalService.get_signal; fails: an
\* exception is raised inside get_signal after the data was looked up
SrvGetSignal ==
    \E sym \in SrvSymbols :
    \E cls \in IF srv.data[sym] = "absent" THEN DataClasses ELSE {srv.data[sym]},
       llm \in SrvLlm, fails \in BOOLEAN :
        LET entry == srv.cache[sym]
            data == cls
            killed == rc.is_killed
        IN
        IF ~srv.service
        THEN /\ srv' = [srv EXCEPT !.resp = Reply(503, "not initialized", "none", 0, 0)]
             /\ UNCHANGED <<coreVars, clVars, run, md, ind, dec, agg, cbar, oso>>
        ELSE IF cache_get(entry, now)
        THEN /\ srv' = [srv EXCEPT !.killed = killed,
                                   !.resp = Reply(200, "cached", entry.action, entry.qty, entry.confidence)]
             /\ UNCHANGED <<coreVars, clVars, run, md, ind, dec, agg, cbar, oso>>
        ELSE IF fails
        THEN /\ srv' = [srv EXCEPT !.killed = killed, !.data[sym] = data,
                                   !.resp = Reply(200, "error", "HOLD", 0, 0)]
             /\ UNCHANGED <<coreVars, clVars, run, md, ind, dec, agg, cbar, oso>>
        ELSE IF cls = "empty"
        THEN /\ srv' = [srv EXCEPT !.killed = killed, !.data[sym] = data,
                                   !.resp = Reply(200, "no data", "HOLD", 0, 0)]
             /\ UNCHANGED <<coreVars, clVars, run, md, ind, dec, agg, cbar, oso>>
        ELSE /\ srv' = SRV_served(srv, sym, data, killed, SRV_signal(cls, llm, rc, today), now)
             /\ rc' = RC_new_day(rc, today)
             /\ rc_ret' = RC_check_trading_allowed(rc, today)
             /\ UNCHANGED <<today, rc_hist, omGate, omBook, omStream, botVars, clVars, run, md, ind, dec, agg, cbar, oso>>

\* POST /kill
SrvKill ==
    /\ srv.service
    /\ rc' = RC_kill_trading(rc)
    /\ rc_ret' = "none"
    /\ UNCHANGED <<today, rc_hist, omGate, omBook, omStream, botVars, appVars>>

\* POST /resume
SrvResume ==
    /\ srv.service
    /\ rc' = RC_resume_trading(rc)
    /\ rc_ret' = "none"
    /\ UNCHANGED <<today, rc_hist, omGate, omBook, omStream, botVars, appVars>>

\* ------------------------------------- MarketDataHandler: the forming bar
\* The ring of ticks and the arrival order are md's; here are the prices:
\* the forming bar of each symbol, the closes of its completed bars, and the
\* history of the ticks since the forming bar was opened.
TickPrices == 1..3
TickSizes == {0, 2}

\* the bars the broker sends (low <= open, close <= high)
WireBars ==
    {[open |-> 2, high |-> 3, low |-> 1, close |-> 2, volume |-> 5],
     [open |-> 1, high |-> 1, low |-> 1, close |-> 1, volume |-> 0]}

NoBar == [open |-> 0, high |-> 0, low |-> 0, close |-> 0, volume |-> 0]

BarInit ==
    cbar = [has |-> [s \in MdSymbols |-> FALSE],
            bar |-> [s \in MdSymbols |-> NoBar],
            closes |-> [s \in MdSymbols |-> <<>>],
            steps |-> 0,
            \* history
            opened_by |-> [s \in MdSymbols |-> "none"],
            sizes |-> [s \in MdSymbols |-> 0],
            last_tick |-> [s \in MdSymbols |-> 0],
            last_op |-> "none",
            closes_before |-> [s \in MdSymbols |-> <<>>]]

\* an update that never lowers the low
Bar_update_KeepLow(b, price, size) ==
    [b EXCEPT !.high = Max(@, price), !.close = price, !.volume = @ + size]

\* Bar.update
Bar_update(b, price, size) ==
    [b EXCEPT !.high = Max(@, price), !.low = Min(@, price), !.close = price, !.volume = @ + size]

\* _update_current_bar
update_current_bar(has, b, price, size) ==
    IF ~has
    THEN [open |-> price, high |-> price, low |-> price, close |-> price, volume |-> size]
    ELSE Bar_update(b, price, size)

\* process_tick, on the forming bar
BarTick ==
    \E s \in MdSymbols, price \in TickPrices, size \in TickSizes :
        /\ cbar.steps < MaxBarEvents
        /\ cbar' = [cbar EXCEPT !.steps = @ + 1,
                                !.has[s] = TRUE,
                                !.bar[s] = update_current_bar(cbar.has[s], @, price, size),
                                !.opened_by[s] = IF cbar.has[s] THEN @ ELSE "tick",
                                !.sizes[s] = IF cbar.has[s] THEN @ + size ELSE size,
                                !.last_tick[s] = price,
                                !.last_op = "tick",
                                !.closes_before = cbar.closes]
        /\ UNCHANGED <<coreVars, clVars, run, md, ind, dec, agg, srv, oso>>

\* process_bar: a complete bar is appended to the ring, an incomplete one
\* replaces the forming bar
BarUpdate ==
    \E s \in MdSymbols, b \in WireBars, complete \in BOOLEAN :
        /\ cbar.steps < MaxBarEvents
        /\ cbar' = IF complete
                   THEN [cbar EXCEPT !.steps = @ + 1,
                                     !.closes[s] = deque_append(@, b.close, max_bars),
                                     !.last_op = "complete",
                                     !.closes_before = cbar.closes]
                   ELSE [cbar EXCEPT !.steps = @ + 1,
                                     !.has[s] = TRUE,
                                     !.bar[s] = b,
                                     !.opened_by[s] = "bar",
                                     !.sizes[s] = 0,
                                     !.last_tick[s] = 0,
                                     !.last_op = "incomplete",
                                     !.closes_before = cbar.closes]
        /\ UNCHANGED <<coreVars, clVars, run, md, ind, dec, agg, srv, oso>>

\* ------------------------------------------- stop, target and the bracket
\* BotConfig.stop_atr_mult 1.5 and target_atr_mult 2.0, in tenths, and the
\* period of the ATR
stop_atr_mult == 15
target_atr_mult == 20
atr_period == 2

\* A price p is the integer p * OsoScale, which keeps the true ranges, the
\* ATRs of the bounded lists and the stops and targets integers.
OsoScale == 12
OsoBar ==
    {[high |-> 1 * OsoScale, low |-> 1 * OsoScale, close |-> 1 * OsoScale],
     [high |-> 2 * OsoScale, low |-> 1 * OsoScale, close |-> 2 * OsoScale]}

\* the bars _on_chart hands to calculate_from_bars (highs, lows and closes
\* of the same stored bars), oldest first
OsoBars == UNION {[1..n -> OsoBar] : n \in 0..(atr_period + 2)}

\* quote.last or quote.mid; 0: no quote, or no price in it
QuotePrices == {0, 1 * OsoScale, 2 * OsoScale}

\* _calculate_true_range
calculate_true_range(high, low, prev_close) ==
    Max(Max(high - low, Abs(high - prev_close)), Abs(low - prev_close))

\* _calculate_atr: the SMA of the first period true ranges, then one EMA
\* step per later true range
calculate_atr(bars, period) ==
    LET true_ranges == [i \in 1..(Len(bars) - 1) |->
                            calculate_true_range(bars[i + 1].high, bars[i + 1].low, bars[i].close)]
    IN
    IF Len(bars) < period + 1 THEN <<>>
    ELSE IF Len(true_ranges) < period THEN <<>>
    ELSE ema_rest(<<SumSeq(SubSeq(true_ranges, 1, period)) \div period>>, true_ranges, period + 1, period)

\* _atr[symbol] after calculate_from_bars: set when the ATR series has a value
IND_atr_from_bars(atr, bars) ==
    LET atr_values == calculate_atr(bars, atr_period)
    IN IF bars = <<>> \/ atr_values = <<>> THEN atr ELSE atr_values[Len(atr_values)]

NoStopTarget == [defined |-> FALSE, stop |-> 0, target |-> 0]

\* a derivation that puts the stop below and the target above on both sides
calculate_stop_target_LongOnly(atr, entry_price, is_long, stop_mult, target_mult) ==
    IF atr = None \/ atr = 0 THEN NoStopTarget
    ELSE [defined |-> TRUE,
          stop |-> entry_price - (stop_mult * atr) \div 10,
          target |-> entry_price + (target_mult * atr) \div 10]

\* calculate_stop_target; atr is _atr.get(symbol)
calculate_stop_target(atr, entry_price, is_long, stop_mult, target_mult) ==
    IF atr = None \/ atr = 0 THEN NoStopTarget
    ELSE IF is_long
    THEN [defined |-> TRUE,
          stop |-> entry_price - (stop_mult * atr) \div 10,
          target |-> entry_price + (target_mult * atr) \div 10]
    ELSE [defined |-> TRUE,
          stop |-> entry_price + (stop_mult * atr) \div 10,
          target |-> entry_price - (target_mult * atr) \div 10]

\* place_oso_order: the order_data posted to order/placeoso
place_oso_order(action, quantity, stop_loss, take_profit) ==
    LET sl_action == IF action = "Buy" THEN "Sell" ELSE "Buy"
        tp_action == IF action = "Buy" THEN "Sell" ELSE "Buy"
    IN [action |-> action, orderQty |-> quantity, orderType |-> "Market",
        bracket1 |-> [action |-> sl_action, orderType |-> "Stop", stopPrice |-> stop_loss],
        bracket2 |-> [action |-> tp_action, orderType |-> "Limit", price |-> take_profit]]

NoPayload == place_oso_order("none", 0, 0, 0)

OsoInit == oso = [atr |-> Absent, sent |-> NoPayload, price |-> 0, atr_used |-> None]

\* _on_chart: calculate_from_bars on the stored bars
OsoChart ==
    \E bars \in OsoBars :
        /\ oso' = [oso EXCEPT !.atr = IND_atr_from_bars(@, bars)]
        /\ UNCHANGED <<coreVars, clVars, run, md, ind, dec, agg, srv, cbar>>

\* one pass of _process_symbol with the ATR of the indicators: the checks
\* of the indicator values, the quote, the stop and the target, then the
\* bracket that place_bracket_order hands to place_oso_order
OsoCycle ==
    \E sig \in Signals, ema_ready \in BOOLEAN, current_price \in QuotePrices :
        LET atr == Get(oso.atr)
            st == calculate_stop_target(atr, current_price, sig > 0, stop_atr_mult, target_atr_mult)
            ready == /\ ema_ready
                     /\ atr # None
                     /\ current_price # 0
                     /\ st.defined /\ st.stop # 0 /\ st.target # 0
        IN
        /\ ProcessSymbolStep(sig, ready)
        /\ oso' = IF bot'.pc = "await_bracket"
                  THEN [oso EXCEPT !.sent = place_oso_order(bot'.action, bot'.quantity, st.stop, st.target),
                                   !.price = current_price, !.atr_used = atr]
                  ELSE oso
        /\ UNCHANGED <<clVars, run, md, ind, dec, agg, srv, cbar>>

\* _on_chart: the closes of the stored bars go to calculate_from_bars; the
\* loop is followed over MaxCharts chart messages of slow_ema_period + 1 bars
MaxCharts == 2
ChartCloses == [1..(slow_ema_period + 1) -> ClosePrices]

LoopChart ==
    \E closes \in ChartCloses :
        /\ ind.steps < MaxCharts
        /\ ind' = [IND_calculate_from_bars(ind, closes) EXCEPT !.steps = @ + 1]
        /\ UNCHANGED <<coreVars, clVars, run, md, dec, svcVars>>

\* one pass of _process_symbol on the signal get_values computes from the
\* stored EMAs
LoopCycle == \E ready \in BOOLEAN : ProcessSymbol(indicator_values(ind).signal, ready)

Init == CoreInit /\ MdInit /\ IndInit /\ DecideIdle /\ AggIdle /\ SrvInit /\ BarInit /\ OsoInit

vars == <<today, rcVars, omGate, omBook, omStream, botVars, appVars>>

\* ---------------------------------------------- specification: the two gates
NextGate ==
    \/ AdvanceDay
    \/ RCCheckTradingAllowed
    \/ RCRecordTrade
    \/ RCKillTrading
    \/ RCResumeTrading
    \/ OMCanTrade
    \/ OMRecordPnl
    \/ OMKillTrading
    \/ OMResumeTrading

SpecGate == Init /\ [][NextGate]_vars

\* ------------- specification: the placements of one caller, and the gate
NextOM ==
    \/ AdvanceDay
    \/ OMRecordPnl
    \/ OMKillTrading
    \/ OMResumeTrading
    \/ PlaceSeq
    \/ ContractAnswer
    \/ PlaceAnswer

SpecOM == Init /\ [][NextOM]_vars

\* ------------------ specification: placements of callers that interleave
NextRace ==
    \/ OMKillTrading
    \/ OMResumeTrading
    \/ PlaceAny
    \/ ContractAnswer
    \/ PlaceAnswer

SpecRace == Init /\ [][NextRace]_vars

\* --------- specification: one caller, and the events of the user stream
NextStream ==
    \/ PlaceSide
    \/ ContractAnswer
    \/ PlaceAnswer
    \/ Flatten
    \/ FlattenAnswer
    \/ FillEvent
    \/ ChildFillEvent
    \/ PositionEvent

SpecStream == Init /\ [][NextStream]_vars

\* ------------------------------- specification: the websocket client
NextWs ==
    \/ WsConnect
    \/ WsSubscribe
    \/ WsSubscribeUser
    \/ WsSendDone
    \/ WsFrame
    \/ WsResume
    \/ WsTimeout
    \/ WsStreamClose
    \/ WsDisconnect
    \/ HbStart
    \/ HbWake
    \/ HbSend

SpecWs == Init /\ [][NextWs]_vars

\* the steps the event loop itself takes are taken: a sleep ends, a send
\* returns or raises, a timer fires, a task that can resume resumes
SpecWsFair ==
    /\ SpecWs
    /\ WF_vars(HbStart)
    /\ WF_vars(HbWake)
    /\ WF_vars(HbSend)
    /\ WF_vars(WsSendDone)
    /\ WF_vars(WsResume)
    /\ WF_vars(WsTimeout)

\* ------------------------------- specification: the tracked positions
NextPos ==
    \/ PositionReport
    \/ Sync
    \/ SyncAnswer
    \/ Flatten
    \/ ContractAnswer
    \/ FlattenAnswer

SpecPos == Init /\ [][NextPos]_vars

\* --------------------- specification: the life of an order in the book
NextOrders ==
    \/ PlaceSeq
    \/ ContractAnswer
    \/ PlaceAnswer
    \/ Cancel
    \/ CancelAnswer
    \/ FillEvent
    \/ ChildFillEvent
    \/ OMSetCallbacks

SpecOrders == Init /\ [][NextOrders]_vars

\* ------------------- specification: the decision loop and the user stream
NextBot ==
    \/ BotStart
    \/ Tick
    \/ AdvanceDay
    \/ BotCycle
    \/ BotBracketAnswer
    \/ BotContractAnswer
    \/ BotFlattenAnswer
    \/ BotExecution
    \/ BotChildExecution
    \/ PositionEvent

SpecBot == Init /\ [][NextBot]_vars

\* ------------------------------------ specification: the REST client
NextClient ==
    \/ Tick
    \/ ClConnect
    \/ ClDisconnect
    \/ ClRequest
    \/ ClAuthAnswer
    \/ ClResponse

SpecClient == Init /\ [][NextClient]_vars

\* ------------------------------ specification: the bot is started and stopped
NextStop ==
    \/ Tick
    \/ BotStart
    \/ BotCycle
    \/ BotBracketAnswer
    \/ BotLoopExit
    \/ SentimentUpdated
    \/ SentimentWake
    \/ HbWake
    \/ HbSend
    \/ StopCall
    \/ StopOrdersAnswer
    \/ StopCancelAnswer
    \/ StopWebsocket
    \/ StopClient

SpecStop == Init /\ [][NextStop]_vars

\* what the event loop and the broker do for themselves is done: the clock
\* advances, a sleep ends, a request is answered or times out, a send
\* returns or raises, a coroutine that can resume resumes
SpecStopFair ==
    /\ SpecStop
    /\ WF_vars(Tick)
    /\ WF_vars(BotBracketAnswer)
    /\ WF_vars(BotLoopExit)
    /\ WF_vars(SentimentUpdated)
    /\ WF_vars(SentimentWake)
    /\ WF_vars(HbWake)
    /\ WF_vars(HbSend)
    /\ WF_vars(StopOrdersAnswer)
    /\ WF_vars(StopCancelAnswer)
    /\ WF_vars(StopWebsocket)
    /\ WF_vars(StopClient)

\* ------------------------------- specification: the market data rings
NextMarket ==
    \/ MdTick
    \/ MdBar
    \/ MdChart

SpecMarket == Init /\ [][NextMarket]_vars

\* ----------------------------------- specification: the indicators
NextIndicators ==
    \/ IndUpdate
    \/ IndCalculateFromBars
    \/ IndGetValues

SpecIndicators == Init /\ [][NextIndicators]_vars

\* ------------------------- specification: the decider and its sizing
NextDecide ==
    \/ Generate
    \/ GetTradingSignal
    \/ RCKillTrading
    \/ RCResumeTrading

InitDecide == CoreInit /\ MdInit /\ IndInit /\ DecideInit /\ AggIdle /\ SrvInit /\ BarInit /\ OsoInit

SpecDecide == InitDecide /\ [][NextDecide]_vars

\* -------------------------------- specification: the sentiment aggregator
NextAggregate ==
    \/ Aggregate

InitAggregate == CoreInit /\ MdInit /\ IndInit /\ DecideIdle /\ AggInit /\ SrvInit /\ BarInit /\ OsoInit

SpecAggregate == InitAggregate /\ [][NextAggregate]_vars

\* ------------------------------------------- specification: signal server
NextServer ==
    \/ Tick
    \/ SrvStartup
    \/ SrvCollect
    \/ SrvGetSignal
    \/ SrvKill
    \/ SrvResume

SpecServer == Init /\ [][NextServer]_vars

\* ------------------------------------- specification: the forming bar
NextBar ==
    \/ BarTick
    \/ BarUpdate

SpecBar == Init /\ [][NextBar]_vars

\* ------------------------- specification: the brackets the loop sends
NextOso ==
    \/ BotStart
    \/ Tick
    \/ OsoChart
    \/ OsoCycle
    \/ BotBracketAnswer

SpecOso == Init /\ [][NextOso]_vars

\* ------------- specification: the decision loop on the indicators' signal
NextLoop ==
    \/ BotStart
    \/ Tick
    \/ AdvanceDay
    \/ LoopChart
    \/ LoopCycle
    \/ BotBracketAnswer
    \/ BotContractAnswer
    \/ BotFlattenAnswer
    \/ BotExecution
    \/ BotChildExecution
    \/ PositionEvent

SpecLoop == Init /\ [][NextLoop]_vars

\* ======================================================================
\* Claims
\* ======================================================================

\* C1: once the day's accumulated dailyPnL is at or below -maxDailyLoss, every
\* later canTrade of that day refuses until resume() or a date change, for
\* the RiskCalculator and for the OrderManager, the first canTrade of a
\* freshly constructed gate included.
C1_KillSwitchLatch ==
    /\ (rc_hist.breach /\ rc_ret # "none") => rc_ret # "ok"
    /\ (om_hist.breach /\ om_ret # "none") => om_ret # "ok"

\* C2: a canTrade that observes a date other than currentDate (a previous
\* day's) resets dailyPnL and dailyTrades, clears killed, stores the date
\* and so allows trading, in both gates.
C2_FreshDayUnkills ==
    [][ /\ (RCCheckTradingAllowed /\ rc.current_date \notin {NoDate, today}) =>
            /\ rc'.daily_pnl = 0 /\ rc'.daily_trades = 0 /\ ~rc'.is_killed
            /\ rc'.current_date = today /\ rc_ret' = "ok"
        /\ (OMCanTrade /\ om.current_date \notin {NoDate, today}) =>
            /\ om'.daily_pnl = 0 /\ om'.daily_trades = 0 /\ ~om'.is_killed
            /\ om'.current_date = today /\ om_ret' = "ok" ]_vars

\* C3: after any canTrade of the day, dailyPnL is the sum of the pnls
\* recorded so far that day, in both gates: no canTrade drops a recorded pnl.
C3_DailyPnlIsSum ==
    /\ rc_ret # "none" => rc.daily_pnl = rc_hist.sum
    /\ om_ret # "none" => om.daily_pnl = om_hist.sum

\* what can_trade refuses, stated on the fields: the day's counters are the
\* stored ones only if the stored date is today's
C4_Refused ==
    LET same == om.current_date = today IN
    \/ same /\ om.is_killed
    \/ same /\ om.daily_trades >= MaxTradesPerDay
    \/ same /\ om.daily_pnl <= -MaxDailyLoss

\* C4: a placement called while canTrade refuses returns null, sends nothing
\* to the broker, records no order and leaves dailyTrades as it was.
C4_RefusedPlacementIsInert ==
    [][ \A t \in Tasks, op \in PlaceOps, q \in Quantities :
            (PlaceCall(t, op, "Buy", q) /\ C4_Refused) =>
                /\ ret' = [task |-> t, value |-> "refused"]
                /\ task' = task
                /\ orders' = orders
                /\ next_id' = next_id
                /\ accepted' = accepted
                /\ om'.daily_trades = om.daily_trades ]_vars

\* a placement was refused for the trade count, and nothing is in flight
C4_Witness ==
    /\ ret.value = "refused"
    /\ om_ret = "trades"
    /\ \A t \in Tasks : task[t].pc = "idle"

\* C5: the number of orders the broker accepted from the OrderManager on one
\* day never exceeds maxTradesPerDay.
C5_DailyTradeLimit == accepted <= MaxTradesPerDay

\* C6: every placement sends and stores min(requested, maxPositionSize); no
\* order above maxPositionSize is submitted or recorded.
C6_QuantityClamped ==
    /\ \A t \in Tasks : task[t].pc # "idle" =>
            task[t].quantity = Min(task[t].requested, MaxPositionSize)
    /\ \A i \in OrderIds : orders[i].quantity <= MaxPositionSize

\* C7: after the decision loop has sent a placement for the symbol (an entry
\* bracket or a liquidation), it sends no further placement for that symbol
\* until cooldownSeconds have elapsed, whether the broker accepted the first
\* one or rejected it.
C7_CooldownMutesSymbol ==
    [][ last_sent' # last_sent =>
            (last_sent = NoTime \/ last_sent' - last_sent >= CooldownSeconds) ]_vars

\* the decision cycle is due to reverse: trading allowed, cooldown elapsed,
\* tracked position non-flat and the signal opposite to its side
C8_ReversalDue(sig) ==
    /\ OM_can_trade(om, today) = "ok"
    /\ ~InCooldown(last_trade_time, now)
    /\ \/ get_position(Symbol).side = "long" /\ sig = -1
       \/ get_position(Symbol).side = "short" /\ sig = 1

C8_FlattenDone == bot.pc \in {"contract", "await_flatten"} /\ bot'.pc = "idle"

C8_Flat == [side |-> "flat", quantity |-> 0]

C9_FillReachesRisk ==
    om.current_date = today =>
        /\ om.daily_pnl = fills.pnl
        /\ fills.pnl <= -MaxDailyLoss => OM_can_trade(om, today) # "ok"

\* every call has returned and every recorded order is filled in full
C10_AllFillsProcessed ==
    /\ \A t \in Tasks : task[t].pc = "idle"
    /\ \A i \in OrderIds : orders[i].status \in {"none", "filled"}

\* C10: once all fill events of the placements and flattens have been
\* processed, the tracked position, signed by its side, is the signed sum of
\* the fill quantities.
C10_PositionIsFillSum ==
    C10_AllFillsProcessed => SignedPosition(get_position(Symbol)) = fills.net

\* C11: every tracked order has filledQty <= qty, and its status is FILLED
\* if and only if filledQty = qty.
C11_OrderInvariant ==
    \A i \in OrderIds :
        orders[i].status # "none" =>
            /\ orders[i].filled_qty <= orders[i].quantity
            /\ orders[i].status = "filled" <=> orders[i].filled_qty = orders[i].quantity

\* C12: a fill event for a tracked order adds the fill quantity to filledQty
\* and sets fillPrice; the status becomes FILLED and onFill is called exactly
\* when filledQty has reached qty (a partial fill leaves the status and calls
\* nothing); a fill for an untracked orderId changes no order and calls
\* nothing.
C12_FillHandler ==
    [][ /\ \A id \in OrderIds, q \in Quantities, price \in Prices, pnl \in {0} \cup PnlValues :
              OrderFill(id, q, price, pnl) =>
                  LET full == orders[id].filled_qty + q >= orders[id].quantity IN
                  /\ orders'[id].filled_qty = orders[id].filled_qty + q
                  /\ orders'[id].fill_price = price
                  /\ orders'[id].status = IF full THEN "filled" ELSE orders[id].status
                  /\ \A j \in OrderIds \ {id} : orders'[j] = orders[j]
                  /\ on_fill'.calls = IF full /\ on_fill.set THEN on_fill.calls + 1
                                                            ELSE on_fill.calls
        /\ \A q \in Quantities, price \in Prices, pnl \in PnlValues :
              ChildFill(q, price, pnl) => (orders' = orders /\ on_fill'.calls = on_fill.calls)
      ]_vars

C13_Terminal == {"filled", "cancelled", "rejected"}

\* C13: the status of an order only moves PENDING -> WORKING -> {FILLED,
\* CANCELLED, REJECTED}: an order in a terminal status keeps it, whatever
\* cancel_order calls and fill events follow.
C13_StatusTransitions ==
    [][ \A i \in OrderIds :
            /\ orders[i].status \in C13_Terminal => orders'[i].status = orders[i].status
            /\ orders[i].status = "none" => orders'[i].status \in {"none", "pending", "working"}
      ]_vars

\* C14: when the broker rejects the entry the decision loop sent, an order
\* with status REJECTED is recorded, and the loop sends no entry again while
\* that rejection is the outcome of its latest placement.
C14_RejectedNoRetry ==
    [][ /\ (bot.pc = "await_bracket" /\ bot'.pc = "idle" /\ ret'.value = "rejected") =>
              \E i \in OrderIds : orders[i].status = "none" /\ orders'[i].status = "rejected"
        /\ (bot.pc = "idle" /\ bot'.pc = "await_bracket") => ret.value # "rejected"
      ]_vars

\* C15: every tracked position has qty >= 0 and side = FLAT if and only if
\* qty = 0.
C15_PositionInvariant ==
    \A k \in Keys :
        positions[k].side # "none" =>
            /\ positions[k].quantity >= 0
            /\ positions[k].side = "flat" <=> positions[k].quantity = 0

\* the symbol's position was flattened while another key holds a short
\* position the broker reported
C15_Witness ==
    /\ ret = [task |-> "t1", value |-> "true"]
    /\ positions[Symbol] = [side |-> "flat", quantity |-> 0]
    /\ \E k \in Keys : positions[k].side = "short" /\ positions[k].quantity = MaxQty

\* the counters and the date of a gate are the same before and after a step
C16_CountersKept(g, h) ==
    /\ h.daily_pnl = g.daily_pnl
    /\ h.daily_trades = g.daily_trades
    /\ h.current_date = g.current_date

C17_LossBeforeTrades ==
    [][ /\ (RCCheckTradingAllowed /\ rc.current_date = today /\ ~rc.is_killed
                /\ rc.daily_pnl <= -MaxDailyLoss) => rc_ret' = "loss"
        /\ \A t \in Tasks, op \in PlaceOps, q \in Quantities :
              (PlaceCall(t, op, "Buy", q) /\ om.current_date = today /\ ~om.is_killed
                  /\ om.daily_pnl <= -MaxDailyLoss) => om_ret' = "loss"
      ]_vars

\* C18: request ids are handed out in strictly increasing order and never
\* reused; a frame with id k touches only the entry of request k, and a
\* request is completed at most once; once _send_request has returned, by a
\* response or by the timeout, its id is out of the pending table; a frame
\* whose id is not in the table completes nothing.
C18_Correlation ==
    [][ /\ ws_req'.request_id # ws_req.request_id =>
              /\ ws_req'.request_id = ws_req.request_id + 1
              /\ ws_req.call[ws_req'.request_id].pc = "none"
              /\ ws_req'.call[ws_req'.request_id].pc = "send"
              /\ \A k \in ReqIds \ {ws_req'.request_id} : ws_req'.call[k] = ws_req.call[k]
        /\ \A k \in ReqIds :
              /\ ws_req.call[k].pc = "none" =>
                    (k > ws_req.request_id /\ ws_req.pending[k] = "none")
              /\ ws_req'.completed[k] <= 1
              /\ ws_req'.call[k].pc \in {"result", "timeout"} => ws_req'.pending[k] = "none"
              /\ ws_req'.call[k].pc = "result" => ws_req'.completed[k] = 1
              /\ ws_req'.call[k].pc = "timeout" => ws_req'.completed[k] = 0
        /\ \A k \in FrameIds :
              (ws_req' = WS_process_message(ws_req, k) /\ ws' = ws) =>
                  /\ \A j \in ReqIds \ {k} :
                        /\ ws_req'.pending[j] = ws_req.pending[j]
                        /\ ws_req'.completed[j] = ws_req.completed[j]
                  /\ (k \in ReqIds /\ ws_req.pending[k] = "none") => ws_req' = ws_req
      ]_vars

\* one request was answered and returned its result, another one timed out,
\* and both ids are out of the table
C18_Witness ==
    /\ \E k \in ReqIds : ws_req.call[k].pc = "result"
    /\ \E k \in ReqIds : ws_req.call[k].pc = "timeout"
    /\ \A k \in ReqIds : ws_req.pending[k] = "none"

\* C19: after a stream has closed while the client is running, the client
\* reconnects it: the stream is open again (or the client has been stopped),
\* with its subscriptions and the user sync re-issued.
C19_Reconnects ==
    \A s \in Streams :
        (ws.running /\ ws[s] = "closed") ~> (ws[s] = "open" \/ ~ws.running)

\* C20: for as long as the client is running and a stream is open, a
\* heartbeat is sent on that stream again and again, whatever happens to
\* the other stream.
C20_HeartbeatLiveness ==
    \A s \in Streams :
        (ws.running /\ ws.hb # "none" /\ ws[s] = "open")
            ~> (ws.beat = s \/ ~ws.running \/ ws[s] # "open")

\* C21: a REST request that is answered with an authentication failure is
\* followed by a re-authentication and exactly one retry of that request:
\* a call that saw a 401 does not return before it has authenticated again
\* and sent the request a second time, and it never sends it a third time.
C21_ReactiveReauth ==
    /\ client.sent <= 2
    /\ (client.denied /\ client.ret # "none") => (client.sent = 2 /\ client.auths >= 1)

\* C22: a bracket placement that is in flight when stop() is called is
\* waited for before the cancellation pass: once stop() has returned, and
\* every request of its cancellation pass was served, no order the bot has
\* placed is working at the broker.
C22_NoWorkingOrderAfterStop ==
    (run.stop = "done" /\ ~run.failed) => \A id \in OrderIds : ~WorkingAtBroker(id)

\* C23: once stop() has been called, the decision loop, the sentiment loop,
\* the heartbeat loop and the two stream readers each come to an end, also
\* when the cancellation step of stop() fails.
C23_LoopsEnded ==
    /\ run.main = "ended"
    /\ run.sentiment = "ended"
    /\ ws.hb \in {"ended", "dead"}
    /\ ws.market_task = "ended"
    /\ ws.trading_task = "ended"

C23_StopEndsEveryLoop == (run.stop # "none") ~> C23_LoopsEnded

\* C24: for every symbol and every sequence of tick, bar and chart events the
\* tick ring holds at most max_ticks items and the bar ring at most max_bars,
\* and each ring is the most recent of the arrived items, in arrival order.
C24_MostRecent(arrived, n) ==
    SubSeq(arrived, Len(arrived) - Min(Len(arrived), n) + 1, Len(arrived))

C24_RingInvariant ==
    \A s \in MdSymbols :
        /\ Len(md.ticks[s]) <= max_ticks
        /\ Len(md.bars[s]) <= max_bars
        /\ md.ticks[s] = C24_MostRecent(md.arrived_ticks[s], max_ticks)
        /\ md.bars[s] = C24_MostRecent(md.arrived_bars[s], max_bars)

\* both rings of a symbol have evicted an item
C24_Witness ==
    \E s \in MdSymbols :
        /\ Len(md.arrived_ticks[s]) > max_ticks
        /\ Len(md.arrived_bars[s]) > max_bars

\* C25: in every IndicatorValues the indicators return, crossUp is true
\* exactly when prevEmaFast <= prevEmaSlow and emaFast > emaSlow, crossDown
\* exactly when prevEmaFast >= prevEmaSlow and emaFast < emaSlow; the two are
\* never both true; signal is +1 iff crossUp, -1 iff crossDown, 0 otherwise;
\* both flags are false while one of the four EMA values is undefined.
C25_Defined ==
    \A x \in {ind.values.ema_fast, ind.values.ema_slow, ind.prev_ema_fast, ind.prev_ema_slow} : x >= 0

C25_Returned == ind.steps > 0 /\ ~ind.values.raised

C25_Crossover ==
    C25_Returned =>
        /\ ind.values.cross_up <=>
              (C25_Defined /\ ind.prev_ema_fast <= ind.prev_ema_slow
                           /\ ind.values.ema_fast > ind.values.ema_slow)
        /\ ind.values.cross_down <=>
              (C25_Defined /\ ind.prev_ema_fast >= ind.prev_ema_slow
                           /\ ind.values.ema_fast < ind.values.ema_slow)
        /\ ~(ind.values.cross_up /\ ind.values.cross_down)
        /\ ind.values.signal = 1 <=> ind.values.cross_up
        /\ ind.values.signal = -1 <=> ind.values.cross_down
        /\ ind.values.signal = 0 <=> (~ind.values.cross_up /\ ~ind.values.cross_down)

\* a cross up out of equal previous values
C25_Witness ==
    /\ C25_Returned
    /\ ind.values.cross_up
    /\ ind.prev_ema_fast = ind.prev_ema_slow

\* C26: after any sequence of update and calculate_from_bars calls the
\* previous EMAs are the values the EMAs had immediately before the step
\* that produced their current values, within the same series; a series of a
\* single value has no previous value.
C26_PreviousCaptured ==
    /\ Get(ind.prev_ema_fast) = ind.before_fast
    /\ Get(ind.prev_ema_slow) = ind.before_slow

\* the direction of a sentiment action
C27_Direction(a) == IF a = "BUY" THEN 1 ELSE IF a = "SELL" THEN -1 ELSE 0

\* C27: when generate was given a technical signal and the gate allowed the
\* trade, the rule-based action and confidence are: on equal directions the
\* sentiment action at min(1, 1.2 c); on exactly opposite directions HOLD at
\* 0.3, unless |score| > 0.6 and c > 0.7, then the sentiment action at
\* 0.6 c; on a neutral technical signal the sentiment action at 0.9 c; on a
\* neutral sentiment the technical direction at 0.5.
C27_CombineRule ==
    (dec.out.calls = 1 /\ dec.out.risk.can_trade /\ dec.in.technical # NoTechnical) =>
        LET s == C27_Direction(dec.in.action)
            t == dec.in.technical
            c == dec.in.confidence
            r == dec.out.rule
        IN
        /\ s = t => r = [action |-> dec.in.action, confidence |-> IF 12 * c > 10000 THEN 1000 ELSE (12 * c) \div 10]
        /\ (s # 0 /\ s = -t) =>
                IF (dec.in.score > 600 \/ dec.in.score < -600) /\ c > 700
                THEN r = [action |-> dec.in.action, confidence |-> (6 * c) \div 10]
                ELSE r = [action |-> "HOLD", confidence |-> 300]
        /\ (s # 0 /\ t = 0) => r = [action |-> dec.in.action, confidence |-> (9 * c) \div 10]
        /\ (s = 0 /\ t # 0) => r = [action |-> IF t = 1 THEN "BUY" ELSE "SELL", confidence |-> 500]

\* C27 witness: a strong BUY sentiment against a bearish technical signal was
\* combined to BUY at 0.6 of its confidence
C27_Witness ==
    /\ dec.out.calls = 1 /\ dec.out.risk.can_trade
    /\ dec.in.action = "BUY" /\ dec.in.technical = -1
    /\ dec.in.score = 700 /\ dec.in.confidence = 750
    /\ dec.out.rule = [action |-> "BUY", confidence |-> 450]

\* C28: when the LLM adjudication is enabled and the decide call fails
\* (analyzer unavailable, model error, unparsable output), the signal
\* returned by generate carries the action and the confidence of the
\* rule-based combination.
C28_LlmFallback ==
    (dec.out.calls = 1 /\ dec.out.risk.can_trade /\ dec.in.llm.kind \in LlmFailures) =>
        /\ dec.out.action = dec.out.rule.action
        /\ dec.out.confidence = dec.out.rule.confidence

\* C29: every signal returned by generate has quantity 0 when its action is
\* HOLD, the HOLD of a risk refusal carrying the refusal reason, and
\* quantity min(position_size, max_position_size) otherwise; the quantity
\* never exceeds max_position_size.
C29_Quantity ==
    dec.out.calls = 1 =>
        /\ dec.out.action = "HOLD" => dec.out.quantity = 0
        /\ dec.out.action # "HOLD" =>
                dec.out.quantity = IF dec.out.risk.position_size < rc_max_position_size
                                   THEN dec.out.risk.position_size ELSE rc_max_position_size
        /\ ~dec.out.risk.can_trade =>
                /\ dec.out.action = "HOLD"
                /\ dec.out.reasoning = dec.out.risk.reason
                /\ dec.out.reasoning \in {"kill", "loss", "trades"}
        /\ dec.out.quantity <= rc_max_position_size

\* C29 witness: a BUY or SELL whose position size was above max_position_size
\* was returned with quantity max_position_size
C29_Witness ==
    /\ dec.out.calls = 1
    /\ dec.out.action # "HOLD"
    /\ dec.out.risk.position_size > rc_max_position_size
    /\ dec.out.quantity = rc_max_position_size

\* the tier of a confidence
C30_Tier(c) ==
    IF c < 550 THEN 0 ELSE IF c < 650 THEN 1 ELSE IF c < 750 THEN 2
    ELSE IF c < 850 THEN 3 ELSE IF c < 950 THEN 4
    ELSE IF rc_max_position_size < 5 THEN rc_max_position_size ELSE 5

\* C30: calculate returns position size 0 whenever confidence < 0.55, for
\* every volatility and price; otherwise the tier of the confidence, halved
\* when volatility / price > 0.02, multiplied by 0.75 when > 0.01, and never
\* below 1.
C30_PositionSizing ==
    (dec.out.calls = 1 /\ dec.out.risk.can_trade) =>
        LET c == dec.in.confidence
            v == dec.in.volatility
            p == dec.in.price
            size == dec.out.risk.position_size
            adjusted == IF v = 0 \/ p = 0 THEN C30_Tier(c)
                        ELSE IF 100 * v > 2 * p THEN C30_Tier(c) \div 2
                        ELSE IF 100 * v > p THEN (3 * C30_Tier(c)) \div 4
                        ELSE C30_Tier(c)
        IN
        IF c < 550 THEN size = 0
        ELSE size = IF adjusted < 1 THEN 1 ELSE adjusted

\* C31: the action returned by aggregate is HOLD whenever the overall
\* confidence is below the threshold, whatever the composite score; at or
\* above the threshold it is BUY iff composite > 0.3, SELL iff composite <
\* -0.3, else HOLD; no data, no recent data or data whose weights are all
\* zero give composite 0, confidence 0 and HOLD.
C31_AggregatorAction ==
    agg.out.calls = 1 =>
        LET o == agg.out
            below == o.confidence.n * 100 < confidence_threshold * o.confidence.d
            items == agg.in.items
            no_weight == \A s \in DOMAIN items : items[s].n = 0 \/ items[s].weight.n = 0
        IN
        /\ below => o.action = "HOLD"
        /\ ~below =>
            /\ o.action = "BUY" <=> 10 * o.composite_score.n > 3 * o.composite_score.d
            /\ o.action = "SELL" <=> 10 * o.composite_score.n < -3 * o.composite_score.d
            /\ o.action \in {"BUY", "SELL", "HOLD"}
        /\ no_weight => (o.composite_score.n = 0 /\ o.confidence.n = 0 /\ o.action = "HOLD")

\* C31 witness: a composite score above 0.3 was returned as HOLD because the
\* confidence was below the threshold, the data having weight
C31_Witness ==
    /\ agg.out.calls = 1
    /\ agg.out.action = "HOLD"
    /\ 10 * agg.out.composite_score.n > 3 * agg.out.composite_score.d
    /\ agg.out.confidence.n > 0
    /\ agg.out.confidence.n * 100 < confidence_threshold * agg.out.confidence.d

\* a BUY and a SELL are returned, and data with items and no weight is aggregated
C31_WitnessBuy == agg.out.calls = 1 /\ agg.out.action = "BUY"
C31_WitnessZero ==
    /\ agg.out.calls = 1 /\ agg.out.data_points > 0
    /\ \A s \in DOMAIN agg.in.items : agg.in.items[s].weight.n = 0

\* C32: GET /signal never fails: every response is a successful reply, and
\* on an internal error, on missing data or with the service not yet
\* initialized it is exactly action HOLD, qty 0, confidence 0.0.
C32_SignalNeverFails ==
    srv.resp.served =>
        /\ srv.resp.status = 200
        /\ srv.resp.case \in {"error", "no data", "not initialized"} =>
                (srv.resp.action = "HOLD" /\ srv.resp.qty = 0 /\ srv.resp.confidence = 0)

\* C40: every GET /signal handled after POST /kill has returned and before
\* POST /resume is answered with action HOLD and qty 0, also for a symbol
\* whose signal was cached before the kill.
C40_KillReachesSignal ==
    (srv.resp.served /\ srv.service /\ srv.killed) =>
        (srv.resp.action = "HOLD" /\ srv.resp.qty = 0)

\* C35: an update(symbol, c) returns normally after every sequence of
\* update and calculate_from_bars calls, and an EMA that was undefined
\* before it (never set, or left undefined by a calculate_from_bars with
\* fewer closes than its period) is set to c.
C35_UpdateAfterShortSeeding ==
    ind.close # None =>
        /\ ~ind.values.raised
        /\ ind.before_fast = None => ind.ema_fast = ind.close
        /\ ind.before_slow = None => ind.ema_slow = ind.close

\* C34: for every symbol and every sequence of ticks and bar updates, the
\* forming bar satisfies low <= open <= high and low <= close <= high, its
\* close is the price of the latest tick since it was opened, the volume of
\* a bar opened by a tick is the sum of the tick sizes since then; a bar
\* update with complete = false replaces the forming bar and leaves the ring
\* of completed bars unchanged.
C34_FormingBar ==
    /\ \A s \in MdSymbols :
        cbar.has[s] =>
            LET b == cbar.bar[s] IN
            /\ b.low <= b.open /\ b.open <= b.high
            /\ b.low <= b.close /\ b.close <= b.high
            /\ cbar.last_tick[s] # 0 => b.close = cbar.last_tick[s]
            /\ cbar.opened_by[s] = "tick" => b.volume = cbar.sizes[s]
    /\ cbar.last_op = "incomplete" =>
        /\ cbar.closes = cbar.closes_before
        /\ \E s \in MdSymbols : cbar.has[s] /\ cbar.bar[s] \in WireBars

\* C34 witness: a forming bar opened by a tick whose open lies strictly
\* between its low and its high and whose close is its low
C34_Witness ==
    \E s \in MdSymbols :
        /\ cbar.has[s] /\ cbar.opened_by[s] = "tick"
        /\ cbar.bar[s].low < cbar.bar[s].open /\ cbar.bar[s].open < cbar.bar[s].high
        /\ cbar.bar[s].close = cbar.bar[s].low
        /\ cbar.bar[s].volume > 0

\* a forming bar was replaced by an incomplete bar while completed bars exist
C34_WitnessReplace ==
    /\ cbar.last_op = "incomplete"
    /\ \E s \in MdSymbols : cbar.opened_by[s] = "bar" /\ cbar.closes[s] # <<>>

\* C39: with technicals and sentiment enabled, a cached sentiment and its
\* confidence at or above the threshold, the direction _get_trading_signal
\* returns is the direction of the action _combine_signals returns for the
\* same technical signal, sentiment action, score and confidence.
C39_BotFollowsCombineRule ==
    (dec.signal.called /\ dec.signal.cached /\ use_sentiment /\ use_technicals
        /\ dec.in.confidence >= confidence_threshold * 10) =>
        dec.signal.value =
            C27_Direction(combine_signals(dec.in.action, dec.in.confidence, dec.in.score, dec.in.technical).action)

\* C33: every bracket the loop has sent has two children on the side
\* opposite to the entry, bracket1 a Stop at the stop-loss price and bracket2
\* a Limit at the take-profit price, the two derived from the entry price
\* and the ATR (1.5 and 2 ATRs away); the stop lies on the losing side and
\* the target on the winning side of the entry price; the ATR was defined
\* when it was sent.
C33_Bracket ==
    oso.sent.action # "none" =>
        LET b == oso.sent
            p == oso.price
            a == oso.atr_used
        IN
        /\ b.action \in {"Buy", "Sell"}
        /\ a # None /\ a > 0
        /\ b.bracket1.orderType = "Stop" /\ b.bracket2.orderType = "Limit"
        /\ b.action = "Buy" =>
              /\ b.bracket1.action = "Sell" /\ b.bracket2.action = "Sell"
              /\ 10 * b.bracket1.stopPrice = 10 * p - stop_atr_mult * a
              /\ 10 * b.bracket2.price = 10 * p + target_atr_mult * a
              /\ b.bracket1.stopPrice < p /\ p < b.bracket2.price
        /\ b.action = "Sell" =>
              /\ b.bracket1.action = "Buy" /\ b.bracket2.action = "Buy"
              /\ 10 * b.bracket1.stopPrice = 10 * p + stop_atr_mult * a
              /\ 10 * b.bracket2.price = 10 * p - target_atr_mult * a
              /\ b.bracket2.price < p /\ p < b.bracket1.stopPrice

\* a short entry was sent with its stop above and its target below the price
C33_Witness ==
    /\ oso.sent.action = "Sell"
    /\ oso.sent.bracket1 = [action |-> "Buy", orderType |-> "Stop", stopPrice |-> oso.price + (15 * oso.atr_used) \div 10]
    /\ oso.sent.bracket2.price < oso.price
    /\ bot.pc = "await_bracket"

\* a long entry was sent whose stop is below zero
C33_WitnessLong ==
    /\ oso.sent.action = "Buy"
    /\ oso.sent.bracket1.stopPrice < 0
    /\ oso.sent.bracket2.action = "Sell"

\* C38: whenever a placement coroutine sends its order-placement request to
\* the broker, the kill switch of the OrderManager is not active at that
\* moment.
C38_NoRequestWhileKilled ==
    [][ \A t \in Tasks :
            (task[t].pc # "await" /\ task'[t].pc = "await" /\ task'[t].op \in PlaceOps) =>
                ~om'.is_killed ]_vars

\* C37: the decision loop sends an entry bracket only while the broker holds
\* no open position from an entry it accepted earlier.
C37_NoStackedEntries ==
    [][ (bot.pc = "idle" /\ bot'.pc = "await_bracket") => fills.net = 0 ]_vars

\* C36: one crossover causes at most one entry: the entries the broker has
\* accepted from the decision loop are never more than the indicator updates
\* that took place (each of which sets at most one crossover).
C36_OneEntryPerCrossover == next_id - 1 <= ind.steps

====
